---- MODULE Spec2Model ----
(***************************************************************************)
(* Task lifecycle managers of the A2A sample agents.                       *)
(*                                                                         *)
(* Two AgentTaskManager classes are modelled: the hiagent one              *)
(* (agents/hiagent/task_manager.py: synchronous and streaming send) and    *)
(* the crewai one (agents/crewai/data_analysis_task_manager.py:            *)
(* synchronous send only).  A server process runs exactly one of them, so  *)
(* the variable manager is chosen once, in Init.                           *)
(*                                                                         *)
(* Scheduling: the handlers are asyncio coroutines.  get_task, upsert_task *)
(* and _update_store contain no await that suspends, and agent.invoke is   *)
(* called synchronously, so on_send_task and on_send_task_subscribe each   *)
(* run as one atomic step.  The stream generator is suspended at each of   *)
(* its yields and while the adapter waits for its backend; one StreamNext  *)
(* step is one resumption of the generator up to its next yield.           *)
(***************************************************************************)
EXTENDS Integers, Sequences, FiniteSets, TLC

(***************************************************************************)
(* Bounds of the model.                                                    *)
(***************************************************************************)
MaxSends == 2   \* requests handled by the server in one behaviour
MaxItems == 2   \* notifications (or a failure) an adapter stream produces

(***************************************************************************)
(* Input domains.                                                          *)
(***************************************************************************)
TaskIds    == {"t1", "t2"}
SessionIds == {"s1"}
Contents   == {"top product is X", "done", "please provide an id"}
Errors     == {"backend unreachable"}
ModeSets   == {{"text"}, {"text/plain", "image"}, {"image"}}
Managers   == {"hiagent", "crewai"}

None == "None"

TextPart(text) == [type |-> "text", text |-> text]
FilePart       == [type |-> "file", text |-> None]
Message(role, parts) == [role |-> role, parts |-> parts]
NoMessage == Message(None, <<>>)

UserMessages ==
    { Message("user", <<TextPart("query")>>),
      Message("user", <<FilePart>>) }

Artifact(parts) == [parts |-> parts]

\* request.params.  A TaskSendParams object has no status and no artifacts.
TaskSendParams(id, sessionId, acceptedOutputModes, message) ==
    [kind |-> "TaskSendParams", id |-> id, sessionId |-> sessionId,
     acceptedOutputModes |-> acceptedOutputModes, message |-> message]

NoParams == TaskSendParams(None, None, {}, NoMessage)

TaskStatus(state, message) == [state |-> state, message |-> message]

Task(id, sessionId, status, message, artifacts) ==
    [kind |-> "Task", id |-> id, sessionId |-> sessionId, status |-> status,
     message |-> message, artifacts |-> artifacts]

\* Python's None where a Task is expected (dict.get of a missing key).
NoTask == [kind |-> None]

\* The states of common.types.TaskState the managers use.
TaskState ==
    [SUBMITTED |-> "submitted", WORKING |-> "working",
     INPUT_REQUIRED |-> "input-required", COMPLETED |-> "completed",
     ERROR |-> "error"]

(***************************************************************************)
(* Adapter constants and the modality check.                               *)
(***************************************************************************)
SUPPORTED_CONTENT_TYPES(m) ==
    IF m = "hiagent" THEN {"text", "text/plain"} ELSE {"text"}

are_modalities_compatible(acceptedOutputModes, supported) ==
    (acceptedOutputModes \cap supported) # {}

\* What agent.invoke does: returns a result or raises.
InvokeOutcomes ==
    [kind : {"ok"}, content : Contents, require_user_input : BOOLEAN,
     error : {None}]
    \cup
    [kind : {"raise"}, content : {None}, require_user_input : {FALSE},
     error : Errors]

\* What the adapter's stream does when asked for its next item: yields a
\* notification, raises, or ends.
\* The content of a notification, one text per combination of its flags.
ItemContent(is_task_complete, require_user_input) ==
    IF is_task_complete /\ require_user_input THEN "done, one more question"
    ELSE IF is_task_complete THEN "done"
    ELSE IF require_user_input THEN "please provide an id"
    ELSE "looking up..."

StreamOutcomes ==
    { [kind |-> "item", is_task_complete |-> c, require_user_input |-> r,
       content |-> ItemContent(c, r), error |-> None] : c, r \in BOOLEAN }
    \cup
    [kind : {"raise"}, is_task_complete : {FALSE}, require_user_input : {FALSE},
     content : {None}, error : Errors]
    \cup
    [kind : {"end"}, is_task_complete : {FALSE}, require_user_input : {FALSE},
     content : {None}, error : {None}]

NoItem ==
    [kind |-> None, is_task_complete |-> FALSE, require_user_input |-> FALSE,
     content |-> None, error |-> None]

(***************************************************************************)
(* Stream events (SendTaskStreamingResponse).                              *)
(***************************************************************************)
TaskStatusUpdateEvent(id, status, final) ==
    [kind |-> "status", id |-> id, status |-> status, final |-> final,
     artifact |-> Artifact(<<>>), error |-> None]

TaskArtifactUpdateEvent(id, artifact) ==
    [kind |-> "artifact", id |-> id, status |-> TaskStatus(None, NoMessage),
     final |-> FALSE, artifact |-> artifact, error |-> None]

InternalError(message) ==
    [kind |-> "error", id |-> None, status |-> TaskStatus(None, NoMessage),
     final |-> FALSE, artifact |-> Artifact(<<>>), error |-> message]

(***************************************************************************)
(* HiAgentCustomerAgent (agents/hiagent/CustomerDetails_agent.py): the     *)
(* remote workflow, its results and the extraction of the customer.        *)
(***************************************************************************)
MaxAttempts == 5   \* largest max_retries given to _wait_for_process directly

default_max_retries == 5   \* max_retries when stream calls _wait_for_process
sleep_seconds == 2         \* asyncio.sleep between two polls

RunIds == {"run-1", "run-2"}

\* A query is the sequence of its characters.
Queries ==
    { <<"i", "d", " ", "4", "2">>, <<"4", "-", "2">>, <<"h", "i">>, <<>>,
      <<"i", "d", " ", "²">>, <<"4", "²", "2">>, <<"³">> }

\* str.isdigit over the characters a string of this module can hold, U+0000
\* to U+00FF: true of the decimal digits and of the superscript digits
\* U+00B2, U+00B3 and U+00B9, and of no other of them.  Its digits beyond
\* U+00FF cannot be written here, in Digits or in a query.
Digits ==
    {"0", "1", "2", "3", "4", "5", "6", "7", "8", "9", "²", "³", "¹"}

\* ''.join(filter(str.isdigit, query)); query.strip() removes no digit.
RECURSIVE customer_id_of(_)
customer_id_of(query) ==
    IF query = <<>> THEN ""
    ELSE (IF Head(query) \in Digits THEN Head(query) ELSE "")
            \o customer_id_of(Tail(query))

\* A dict of customer fields; None stands for a key the dict does not have.
Customer(firstName, lastName, email) ==
    [kind |-> "dict", firstName |-> firstName, lastName |-> lastName,
     email |-> email]

\* Python's None where a customer is expected, and a key a dict does not have.
NoCustomer == [kind |-> None]
Absent     == [kind |-> "absent"]

\* A key the dict has with JSON null as its value.
Null == "null"

FullCustomer    == Customer("Ann", "Lee", "ann@example.com")
PartialCustomer == Customer("Ann", "Lee", None)
EmptyCustomer   == Customer(None, None, None)
NullCustomer    == Customer("Ann", "Lee", Null)

\* not customer_details
falsy(customer) == customer = NoCustomer \/ customer = EmptyCustomer

\* The parsed output of a node: the keys "output" and "data" -> "customer".
OutputData(output, customer) == [output |-> output, customer |-> customer]

\* The output string of a node: JSON text that parses to value, or text that
\* is not JSON.
JsonText(valid, value) == [valid |-> valid, value |-> value]

json_loads_fails(text) == ~text.valid
json_loads(text) == text.value

Node(nodeType, output) == [nodeType |-> nodeType, output |-> output]

EmptyObject == JsonText(TRUE, OutputData(Absent, Absent))
NotJson     == JsonText(FALSE, OutputData(Absent, Absent))

\* process_data["nodes"] of the successful payloads, in the dict's order.
NodeLists ==
    { <<>>,
      <<Node("end", JsonText(TRUE, OutputData(FullCustomer, Absent)))>>,
      <<Node("http_request", JsonText(TRUE, OutputData(Absent, FullCustomer)))>>,
      <<Node("end", JsonText(TRUE, OutputData(PartialCustomer, Absent)))>>,
      <<Node("end", JsonText(TRUE, OutputData(EmptyCustomer, Absent)))>>,
      <<Node("http_request", JsonText(TRUE, OutputData(Absent, NullCustomer)))>>,
      <<Node("end", NotJson)>>,
      <<Node("start", EmptyObject), Node("end", EmptyObject)>>,
      <<Node("end", EmptyObject),
        Node("http_request", JsonText(TRUE, OutputData(Absent, FullCustomer)))>>,
      <<Node("http_request", NotJson),
        Node("end", JsonText(TRUE, OutputData(FullCustomer, Absent)))>> }

ProcessData(status, nodes) == [status |-> status, nodes |-> nodes]
NoProcessData == ProcessData(None, <<>>)

\* The statuses of the workflow API, and one it does not document.
PollStatuses == {"success", "processing", "failed", "pending", "cancelled"}

\* _query_process raises: the exception's type and str().
PollRaise(error, message) ==
    [kind |-> "raise", process_data |-> NoProcessData, error |-> error,
     message |-> message]

\* What _query_process does: returns the process data or raises.  A response
\* that is no object (line 123) and one without "status" (line 126) raise
\* ValueError with the response in the text, a transport failure an HTTP
\* error.  The except clause of line 130 names httpx.TimeoutError: with an
\* httpx module that has no such attribute, matching any exception raised in
\* the try block raises AttributeError in its place.
PollOutcomes ==
    { [kind |-> "return", process_data |-> ProcessData("success", n),
       error |-> None, message |-> None] : n \in NodeLists }
    \cup
    { [kind |-> "return", process_data |-> ProcessData(s, <<>>),
       error |-> None, message |-> None] : s \in PollStatuses \ {"success"} }
    \cup
    { PollRaise("ValueError", "Invalid response format: ['x']"),
      PollRaise("ValueError", "Missing status in response: {'nodes': {}}"),
      PollRaise("HTTPError", "transport error"),
      PollRaise("AttributeError",
                "module 'httpx' has no attribute 'TimeoutError'") }

\* What _run_workflow does: returns the response, whose "runId" may be
\* missing, or raises.
WorkflowOutcomes ==
    [kind : {"return"}, runId : RunIds \cup {None}] \cup
    [kind : {"raise"}, runId : {None}]

NoWorkflowResponse == [kind |-> None, runId |-> None]

\* _extract_customer_details over the nodes, in order; a JSONDecodeError in
\* any visited node makes it return None.
RECURSIVE extract_from_nodes(_)
extract_from_nodes(nodes) ==
    IF nodes = <<>> THEN NoCustomer
    ELSE LET node == Head(nodes)
             data == json_loads(node.output)
         IN  IF node.nodeType \notin {"end", "http_request"}
             THEN extract_from_nodes(Tail(nodes))
             ELSE IF json_loads_fails(node.output) THEN NoCustomer
             ELSE IF node.nodeType = "end" /\ data.output # Absent
             THEN data.output
             ELSE IF node.nodeType = "http_request" /\ data.customer # Absent
             THEN data.customer
             ELSE extract_from_nodes(Tail(nodes))

extract_customer_details(process_data) == extract_from_nodes(process_data.nodes)

\* A notification the adapter yields.
Notification(is_task_complete, require_user_input, content) ==
    [kind |-> "item", is_task_complete |-> is_task_complete,
     require_user_input |-> require_user_input, content |-> content,
     error |-> None]

\* The result of a _wait_for_process call: the returned process data or the
\* exception raised.
WaitResult(kind, process_data, message) ==
    [kind |-> kind, process_data |-> process_data, message |-> message]

NoWaitResult == WaitResult(None, NoProcessData, None)

\* A _wait_for_process call: where it is suspended, its arguments, the loop
\* variable, the polls it made (run id asked, outcome), the delays slept.
NoPoller ==
    [pc |-> "idle", caller |-> None, run_id |-> None, max_retries |-> 0,
     attempt |-> 0, polls |-> <<>>, delays |-> <<>>, result |-> NoWaitResult]

\* An agent.stream generator: where it is suspended, its locals, the
\* notifications it has yielded and the number of _run_workflow calls.
NoAgent ==
    [pc |-> "idle", rid |-> 0, query |-> <<>>, customer_id |-> "",
     workflow_response |-> NoWorkflowResponse, process_data |-> NoProcessData,
     customer_details |-> NoCustomer, yielded |-> <<>>, submits |-> 0]

VARIABLES
    manager,   \* which AgentTaskManager this server runs
    tasks,     \* the task store: self._tasks (hiagent), self.tasks (crewai)
    streams,   \* the stream generators, by request number
    nextReq,   \* number of the next request
    last,      \* the reply of the step just taken, when that step was a send
    prov,      \* per task id: the request that wrote the stored status and the
               \* request that wrote the stored artifacts (0: none)
    agent,     \* the running HiAgentCustomerAgent.stream generator
    poller     \* the running HiAgentCustomerAgent._wait_for_process call

vars == <<manager, tasks, streams, nextReq, last, prov, agent, poller>>

Requests == 1..MaxSends

(***************************************************************************)
(* Task store.                                                             *)
(***************************************************************************)
get_task(store, task_id) == store[task_id]

\* An upsert that adds the new artifacts to those already stored.
upsert_task_adding_artifacts(store, mgr, task) ==
    IF task.kind = "Task" /\ store[task.id].kind = "Task"
    THEN [store EXCEPT ![task.id] =
             [task EXCEPT !.artifacts = store[task.id].artifacts \o @]]
    ELSE [store EXCEPT ![task.id] = task]

\* An upsert that keeps the stored session id when the new Task has none.
upsert_task_keeping_session(store, mgr, task) ==
    IF task.kind = "Task" /\ store[task.id].kind = "Task"
       /\ task.sessionId = None
    THEN [store EXCEPT ![task.id] =
             [task EXCEPT !.sessionId = store[task.id].sessionId]]
    ELSE [store EXCEPT ![task.id] = task]

\* An upsert of request params that keeps the artifacts already stored.
upsert_task_keeping_artifacts(store, mgr, task) ==
    IF task.kind = "TaskSendParams" /\ mgr = "hiagent"
    THEN [store EXCEPT ![task.id] =
             Task(task.id, task.sessionId,
                  TaskStatus(TaskState.WORKING, NoMessage), task.message,
                  IF store[task.id].kind = "Task"
                  THEN store[task.id].artifacts ELSE <<>>)]
    ELSE [store EXCEPT ![task.id] = task]

\* An upsert into a new dict: the records of the other ids are gone.
upsert_task_dropping_others(store, mgr, task) ==
    [id \in TaskIds |->
        IF id # task.id THEN NoTask
        ELSE IF task.kind = "TaskSendParams" /\ mgr = "hiagent"
        THEN Task(task.id, task.sessionId,
                  TaskStatus(TaskState.WORKING, NoMessage), task.message, <<>>)
        ELSE task]

upsert_task(store, mgr, task) ==
    IF task.kind = "TaskSendParams" /\ mgr = "hiagent"
    THEN [store EXCEPT ![task.id] =
             Task(task.id, task.sessionId,
                  TaskStatus(TaskState.WORKING, NoMessage), task.message, <<>>)]
    ELSE [store EXCEPT ![task.id] = task]

\* An update that assigns the artifacts whatever they are.
UpdatedTaskSettingArtifacts(task, status, artifacts) ==
    [task EXCEPT !.status = status, !.artifacts = artifacts]

\* _update_store after its not-found check: task.status = status and, for a
\* non-empty artifact list, task.artifacts = artifacts; then upsert.
UpdatedTask(task, status, artifacts) ==
    [task EXCEPT !.status = status,
                 !.artifacts = IF artifacts # <<>> THEN artifacts ELSE @]

update_store_fails(store, task_id) == get_task(store, task_id) = NoTask

update_store(store, mgr, task_id, status, artifacts) ==
    upsert_task(store, mgr,
                UpdatedTask(get_task(store, task_id), status, artifacts))

get_user_query_fails(params) == params.message.parts[1].type # "text"

\* A validation that lets every request through.
validate_request_accepts_all(mgr, params) == FALSE

validate_request_fails(mgr, params) ==
    ~are_modalities_compatible(params.acceptedOutputModes,
                               SUPPORTED_CONTENT_TYPES(mgr))

\* Readers: what getTask shows of a stored object.
StateOf(rec) == IF rec.kind = "Task" THEN rec.status.state ELSE None
ArtifactsOf(rec) == IF rec.kind = "Task" THEN rec.artifacts ELSE <<>>

(***************************************************************************)
(* What the caller of a send gets.                                         *)
(***************************************************************************)
Reply(rid, op, params, result, invoked, task, error) ==
    [rid |-> rid, op |-> op, params |-> params,
     result |-> result, invoked |-> invoked, task |-> task, error |-> error]

NoReply ==
    [rid |-> 0, op |-> None, params |-> NoParams,
     result |-> None, invoked |-> FALSE, task |-> NoTask, error |-> None]

\* What the generator keeps of request.params: the fields it reads.
StreamParams(params) ==
    [id |-> params.id, sessionId |-> params.sessionId, message |-> params.message]

NoStreamParams == StreamParams(NoParams)

\* A generator: where it is suspended (pc), the adapter items it has consumed,
\* the events it has yielded, the item of the current iteration, the task its
\* last _update_store returned (as it was then) and the number of its writes.
NoStream ==
    [pc |-> "idle", params |-> NoStreamParams, items |-> <<>>, events |-> <<>>,
     item |-> NoItem, latest_task |-> NoTask, writes |-> 0]

Init ==
    /\ manager \in Managers
    /\ tasks = [id \in TaskIds |-> NoTask]
    /\ streams = [r \in Requests |-> NoStream]
    /\ nextReq = 1
    /\ last = NoReply
    /\ prov = [id \in TaskIds |-> [status |-> 0, artifacts |-> 0]]
    /\ agent = NoAgent
    /\ poller = NoPoller

\* prov after request rid stored a new object under id, and after it wrote a
\* status, with or without artifacts, into the object stored under id.
Fresh(pr, id, rid, artifacts) ==
    [pr EXCEPT ![id] = [status |-> rid,
                        artifacts |-> IF artifacts # <<>> THEN rid ELSE 0]]
Wrote(pr, id, rid, artifacts) ==
    [pr EXCEPT ![id] = [status |-> rid,
                        artifacts |-> IF artifacts # <<>> THEN rid ELSE @.artifacts]]

(***************************************************************************)
(* hiagent: AgentTaskManager.on_send_task                                  *)
(***************************************************************************)
\* A send that stores the final status without the artifact.
HiAgentSendResultWithoutArtifact(store, params, res) ==
    update_store(store, "hiagent", params.id,
                 TaskStatus(TaskState.COMPLETED,
                            Message("agent", <<TextPart(res.content)>>)),
                 <<>>)

HiAgentSendResult(store, params, res) ==
    LET parts  == <<TextPart(res.content)>>
        state  == IF res.require_user_input
                  THEN TaskState.INPUT_REQUIRED ELSE TaskState.COMPLETED
    IN  update_store(store, "hiagent", params.id,
                     TaskStatus(state, Message("agent", parts)),
                     <<Artifact(parts)>>)

HiAgentOnSendTask(params, res) ==
    /\ manager = "hiagent"
    /\ nextReq <= MaxSends
    /\ nextReq' = nextReq + 1
    /\ UNCHANGED <<manager, streams, agent, poller>>
    /\ IF validate_request_fails("hiagent", params)
       THEN /\ last' = Reply(nextReq, "on_send_task", params,
                             "IncompatibleTypes", FALSE, NoTask, None)
            /\ UNCHANGED <<tasks, prov>>
       ELSE LET s1 == upsert_task(tasks, "hiagent", params)
                p1 == Fresh(prov, params.id, nextReq, <<>>)
            IN  IF get_user_query_fails(params)
                THEN /\ tasks' = s1
                     /\ prov' = p1
                     /\ last' = Reply(nextReq, "on_send_task", params, "ValueError",
                                      FALSE, NoTask, "Only text parts are supported")
                ELSE IF res.kind = "raise" \/ update_store_fails(s1, params.id)
                THEN /\ tasks' = s1
                     /\ prov' = p1
                     /\ last' = Reply(nextReq, "on_send_task", params, "ValueError",
                                      res.kind = "raise", NoTask,
                                      "Error invoking agent: " \o res.error)
                ELSE LET s2 == HiAgentSendResult(s1, params, res)
                     IN  /\ tasks' = s2
                         /\ prov' = Wrote(p1, params.id, nextReq,
                                          get_task(s2, params.id).artifacts)
                         /\ last' = Reply(nextReq, "on_send_task", params, "Task",
                                          TRUE, get_task(s2, params.id), None)

(***************************************************************************)
(* crewai: AgentTaskManager.on_send_task and _invoke                       *)
(***************************************************************************)
CrewInvokeTask(params, res) ==
    IF res.kind = "ok"
    THEN Task(params.id, None, TaskStatus(TaskState.COMPLETED, NoMessage),
              Message("agent", <<TextPart(res.content)>>),
              <<Artifact(<<TextPart(res.content)>>)>>)
    ELSE Task(params.id, None, TaskStatus(TaskState.ERROR, NoMessage),
              Message("agent", <<TextPart("Error: " \o res.error)>>),
              <<>>)

CrewOnSendTask(params, res) ==
    /\ manager = "crewai"
    /\ nextReq <= MaxSends
    /\ nextReq' = nextReq + 1
    /\ UNCHANGED <<manager, streams, agent, poller>>
    /\ IF validate_request_fails("crewai", params)
       THEN /\ last' = Reply(nextReq, "on_send_task", params,
                             "IncompatibleTypes", FALSE, NoTask, None)
            /\ UNCHANGED <<tasks, prov>>
       ELSE LET s1 == upsert_task(tasks, "crewai", params)
                p1 == Fresh(prov, params.id, nextReq, <<>>)
            IN  IF get_user_query_fails(params)
                THEN /\ tasks' = s1
                     /\ prov' = p1
                     /\ last' = Reply(nextReq, "on_send_task", params, "ValueError",
                                      FALSE, NoTask, "Only text parts are supported")
                ELSE LET t  == CrewInvokeTask(params, res)
                         s2 == upsert_task(s1, "crewai", t)
                     IN  /\ tasks' = s2
                         /\ prov' = Fresh(p1, params.id, nextReq, t.artifacts)
                         /\ last' = IF res.kind = "ok"
                                    THEN Reply(nextReq, "on_send_task", params,
                                               "Task", TRUE, t, None)
                                    ELSE Reply(nextReq, "on_send_task", params,
                                               "ValueError", TRUE, NoTask,
                                               "Error invoking agent: " \o res.error)

(***************************************************************************)
(* Streaming send.                                                         *)
(***************************************************************************)
HiAgentOnSendTaskSubscribe(params) ==
    /\ manager = "hiagent"
    /\ nextReq <= MaxSends
    /\ nextReq' = nextReq + 1
    /\ UNCHANGED <<manager, agent, poller>>
    /\ IF validate_request_fails("hiagent", params)
       THEN /\ last' = Reply(nextReq, "on_send_task_subscribe", params,
                             "IncompatibleTypes", FALSE, NoTask, None)
            /\ UNCHANGED <<tasks, prov, streams>>
       ELSE /\ tasks' = upsert_task(tasks, "hiagent", params)
            /\ prov' = Fresh(prov, params.id, nextReq, <<>>)
            /\ streams' = [streams EXCEPT ![nextReq] =
                              [NoStream EXCEPT !.pc = "start",
                                               !.params = StreamParams(params)]]
            /\ last' = Reply(nextReq, "on_send_task_subscribe", params,
                             "Stream", FALSE, NoTask, None)

\* A crewai streaming send that stores the request before it raises.
CrewOnSendTaskSubscribeStoring(params) ==
    /\ manager = "crewai"
    /\ nextReq <= MaxSends
    /\ nextReq' = nextReq + 1
    /\ last' = Reply(nextReq, "on_send_task_subscribe", params,
                     "NotImplementedError", FALSE, NoTask,
                     "Streaming subscriptions are not supported")
    /\ tasks' = upsert_task(tasks, "crewai", params)
    /\ UNCHANGED <<manager, prov, streams, agent, poller>>

\* crewai: on_send_task_subscribe raises before it reads the request.
CrewOnSendTaskSubscribe(params) ==
    /\ manager = "crewai"
    /\ nextReq <= MaxSends
    /\ nextReq' = nextReq + 1
    /\ last' = Reply(nextReq, "on_send_task_subscribe", params,
                     "NotImplementedError", FALSE, NoTask,
                     "Streaming subscriptions are not supported")
    /\ UNCHANGED <<manager, tasks, prov, streams, agent, poller>>

(***************************************************************************)
(* hiagent: AgentTaskManager._stream_generator, one resumption per step.   *)
(***************************************************************************)
\* A derivation in which is_task_complete is looked at first.
task_state_complete_first(item) ==
    IF item.is_task_complete THEN TaskState.COMPLETED
    ELSE IF item.require_user_input THEN TaskState.INPUT_REQUIRED
    ELSE TaskState.WORKING

\* Lines 66-82: the status derived from one adapter notification.
task_state(item) ==
    IF ~item.is_task_complete /\ ~item.require_user_input THEN TaskState.WORKING
    ELSE IF item.require_user_input THEN TaskState.INPUT_REQUIRED
    ELSE TaskState.COMPLETED

end_stream(item) == item.is_task_complete \/ item.require_user_input

item_parts(item) == <<TextPart(item.content)>>

item_status(item) == TaskStatus(task_state(item), Message("agent", item_parts(item)))

\* An artifact for every notification, terminal or not.
item_artifacts_for_every_item(item) == <<Artifact(item_parts(item))>>

\* Line 85.
item_artifacts(item) ==
    IF item.is_task_complete THEN <<Artifact(item_parts(item))>> ELSE <<>>

\* The generator asks the adapter for its next item and runs to its next yield.
StreamPull(rid, out) ==
    LET st == streams[rid]
        id == st.params.id
    IN  CASE out.kind = "end" ->
               /\ streams' = [streams EXCEPT ![rid].pc = "done", ![rid].item = NoItem]
               /\ UNCHANGED <<tasks, prov>>
          [] out.kind = "raise" \/ update_store_fails(tasks, id) ->
               /\ streams' = [streams EXCEPT
                     ![rid].pc = "yieldedError",
                     ![rid].item = NoItem,
                     ![rid].items = Append(@, out),
                     ![rid].events = Append(@, InternalError(out.error))]
               /\ UNCHANGED <<tasks, prov>>
          [] OTHER ->
               LET s2 == update_store(tasks, "hiagent", id, item_status(out),
                                      item_artifacts(out))
               IN  /\ tasks' = s2
                   /\ prov' = Wrote(prov, id, rid, item_artifacts(out))
                   /\ streams' = [streams EXCEPT
                         ![rid].pc = "yieldedStatus",
                         ![rid].item = out,
                         ![rid].items = Append(@, out),
                         ![rid].latest_task = get_task(s2, id),
                         ![rid].writes = @ + 1,
                         ![rid].events = Append(@,
                             TaskStatusUpdateEvent(id, item_status(out),
                                                   end_stream(out)))]

StreamNext(rid, out) ==
    LET st == streams[rid]
    IN  /\ manager = "hiagent"
        /\ st.pc \in {"start", "yieldedStatus", "yieldedArtifact", "yieldedError"}
        /\ UNCHANGED <<manager, nextReq, agent, poller>>
        /\ last' = NoReply
        /\ CASE st.pc = "start" /\ get_user_query_fails(st.params) ->
                  \* line 62 raises before the try block is entered
                  /\ streams' = [streams EXCEPT ![rid].pc = "raised"]
                  /\ UNCHANGED <<tasks, prov>>
             [] st.pc = "yieldedError" ->
                  /\ streams' = [streams EXCEPT ![rid].pc = "done"]
                  /\ UNCHANGED <<tasks, prov>>
             [] st.pc = "yieldedStatus" /\ item_artifacts(st.item) # <<>> ->
                  /\ streams' = [streams EXCEPT
                        ![rid].pc = "yieldedArtifact",
                        ![rid].events = Append(@,
                            TaskArtifactUpdateEvent(st.params.id,
                                                    item_artifacts(st.item)[1]))]
                  /\ UNCHANGED <<tasks, prov>>
             [] OTHER ->
                  \* the async for asks for the next item after every
                  \* notification: its body has no break
                  /\ out.kind = "end" \/ Len(st.items) < MaxItems
                  /\ StreamPull(rid, out)

\* The consumer drops a generator that is exhausted or has raised.
StreamClose(rid) ==
    /\ streams[rid].pc \in {"done", "raised"}
    /\ streams' = [streams EXCEPT ![rid] = NoStream]
    /\ last' = NoReply
    /\ UNCHANGED <<manager, tasks, nextReq, prov, agent, poller>>

AllParams ==
    { TaskSendParams(id, sid, modes, msg) :
        id \in TaskIds, sid \in SessionIds, modes \in ModeSets,
        msg \in UserMessages }

Send ==
    \E params \in AllParams :
       \/ \E res \in InvokeOutcomes : HiAgentOnSendTask(params, res)
       \/ \E res \in InvokeOutcomes : CrewOnSendTask(params, res)
       \/ HiAgentOnSendTaskSubscribe(params)
       \/ CrewOnSendTaskSubscribe(params)

Stream ==
    \/ \E rid \in Requests, out \in StreamOutcomes : StreamNext(rid, out)
    \/ \E rid \in Requests : StreamClose(rid)

\* Requests arrive at any time, also while generators are suspended.
Next == Send \/ Stream

\* A server whose clients send one request at a time: no request arrives while
\* a generator is open.
NoOpenStream == \A r \in Requests : streams[r].pc = "idle"

NextSeq ==
    \/ \E params \in AllParams, res \in InvokeOutcomes :
          NoOpenStream /\ HiAgentOnSendTask(params, res)
    \/ \E params \in AllParams, res \in InvokeOutcomes :
          NoOpenStream /\ CrewOnSendTask(params, res)
    \/ \E params \in AllParams :
          NoOpenStream /\ HiAgentOnSendTaskSubscribe(params)
    \/ \E params \in AllParams :
          NoOpenStream /\ CrewOnSendTaskSubscribe(params)
    \/ Stream

SpecSeq == Init /\ [][NextSeq]_vars

Spec == Init /\ [][Next]_vars

(***************************************************************************)
(* hiagent adapter: HiAgentCustomerAgent._wait_for_process.  The call is   *)
(* suspended at each _query_process (one HTTP round trip with its own      *)
(* timeout) and at each asyncio.sleep.                                     *)
(***************************************************************************)
\* A loop that runs its body once more than range(max_retries) does.
loop_runs_once_more(attempt, max_retries) == attempt <= max_retries

\* for attempt in range(max_retries): the body runs for this attempt.
loop_continues(attempt, max_retries) == attempt < max_retries

\* A loop that retries after every status but success.
poll_verdict_retries_all(status) ==
    IF status = "success" THEN "return" ELSE "sleep"

\* A loop that waits for a pending process as it does for a running one.
poll_verdict_retries_pending(status) ==
    IF status = "success" THEN "return"
    ELSE IF status \in {"processing", "pending"} THEN "sleep"
    ELSE "raise"

\* Lines 141-147: what the loop body does with the polled status.
poll_verdict(status) ==
    IF status = "success" THEN "return"
    ELSE IF status = "processing" THEN "sleep"
    ELSE "raise"

\* Line 149.
exhausted ==
    WaitResult("TimeoutError", NoProcessData,
               "Process did not complete within the expected time")

\* The exception of a failing _query_process leaves _wait_for_process as it
\* is: the loop has no try.
query_error(out) == WaitResult(out.error, NoProcessData, out.message)

\* The call at the top of its loop: it polls, or the loop is over.
at_loop_top(p) ==
    IF loop_continues(p.attempt, p.max_retries)
    THEN [p EXCEPT !.pc = "query"]
    ELSE [p EXCEPT !.pc = "raised", !.result = exhausted]

\* The call, up to its first await.
wait_for_process(caller, run_id, max_retries) ==
    at_loop_top([NoPoller EXCEPT !.caller = caller, !.run_id = run_id,
                                 !.max_retries = max_retries])

\* _query_process has returned or raised.
after_query(p, out) ==
    LET q == [p EXCEPT !.polls = Append(@, [run_id |-> p.run_id, out |-> out])]
        status == out.process_data.status
    IN  IF out.kind = "raise"
        THEN [q EXCEPT !.pc = "raised", !.result = query_error(out)]
        ELSE CASE poll_verdict(status) = "return" ->
                    [q EXCEPT !.pc = "returned",
                              !.result = WaitResult("return", out.process_data, None)]
               [] poll_verdict(status) = "sleep" ->
                    [q EXCEPT !.pc = "sleep"]
               [] OTHER ->
                    [q EXCEPT !.pc = "raised",
                              !.result = WaitResult("ValueError", NoProcessData,
                                  "Process failed with status: " \o status)]

\* asyncio.sleep is over: next iteration.
after_sleep(p) ==
    at_loop_top([p EXCEPT !.delays = Append(@, sleep_seconds),
                          !.attempt = @ + 1])

(***************************************************************************)
(* hiagent adapter: HiAgentCustomerAgent.stream, from one suspension to    *)
(* the next.                                                               *)
(***************************************************************************)
Yield(a, pc, item) == [a EXCEPT !.pc = pc, !.yielded = Append(@, item)]

\* An exception reported as one more progress notification.
unhandled_as_progress ==
    Notification(FALSE, FALSE,
        "An error occurred while processing your request. Please try again.")

\* Lines 227-232: the notification for any exception stream does not handle.
unhandled ==
    Notification(TRUE, FALSE,
        "An error occurred while processing your request. Please try again.")

\* Lines 154-172.
agent_start(rid, query) ==
    LET a == [NoAgent EXCEPT !.rid = rid, !.query = query,
                             !.customer_id = customer_id_of(query)]
    IN  IF a.customer_id = ""
        THEN Yield(a, "yielded_last",
                   Notification(FALSE, TRUE,
                       "Please provide a valid customer ID (numbers only)."))
        ELSE Yield(a, "yielded_lookup",
                   Notification(FALSE, FALSE,
                       "Looking up details for customer ID: "
                          \o a.customer_id \o "..."))

\* A stream that goes on to poll whatever the submission returned.
after_workflow_ignoring_run_id(a, resp) ==
    LET b == [a EXCEPT !.workflow_response = resp]
    IN  IF resp.kind = "raise" THEN Yield(b, "yielded_last", unhandled)
        ELSE Yield(b, "yielded_processing",
                   Notification(FALSE, FALSE, "Processing customer information..."))

\* Lines 175-192.
after_workflow(a, resp) ==
    LET b == [a EXCEPT !.workflow_response = resp]
    IN  IF resp.kind = "raise" THEN Yield(b, "yielded_last", unhandled)
        ELSE IF resp.runId = None
        THEN Yield(b, "yielded_last",
                   Notification(TRUE, FALSE,
                       "Failed to initiate workflow. Invalid response from server."))
        ELSE Yield(b, "yielded_processing",
                   Notification(FALSE, FALSE, "Processing customer information..."))

\* customer_details['firstName'], ['lastName'], ['email'] raise KeyError.
format_fails(customer) ==
    None \in {customer.firstName, customer.lastName, customer.email}

\* What an f-string makes of a field's value: None is written "None".
field_text(value) == IF value = Null THEN "None" ELSE value

format_response(customer) ==
    "Customer Details:\nFirst Name: " \o field_text(customer.firstName)
       \o "\nLast Name: " \o field_text(customer.lastName)
       \o "\nEmail: " \o field_text(customer.email)

\* Lines 196-225.
after_wait(a, result) ==
    IF result.kind \in {"TimeoutError", "ValueError"}
    THEN Yield(a, "yielded_last",
               Notification(TRUE, FALSE,
                   "Failed to retrieve customer details: " \o result.message))
    ELSE IF result.kind # "return" THEN Yield(a, "yielded_last", unhandled)
    ELSE LET customer == extract_customer_details(result.process_data)
             b == [a EXCEPT !.process_data = result.process_data,
                            !.customer_details = customer]
         IN  IF falsy(customer)
             THEN Yield(b, "yielded_last",
                        Notification(TRUE, FALSE, "No customer details found."))
             ELSE IF format_fails(customer)
             THEN Yield(b, "yielded_last", unhandled)
             ELSE Yield(b, "yielded_last",
                        Notification(TRUE, FALSE, format_response(customer)))

(***************************************************************************)
(* The hiagent manager run with HiAgentCustomerAgent: the generator chain  *)
(* is suspended while the adapter awaits its backend.                      *)
(***************************************************************************)
\* The adapter's generator is exhausted.
StreamEnd ==
    [kind |-> "end", is_task_complete |-> FALSE, require_user_input |-> FALSE,
     content |-> None, error |-> None]

\* The resumed generator asks the adapter for its next item.
Pulls(st) ==
    /\ ~(st.pc = "start" /\ get_user_query_fails(st.params))
    /\ st.pc # "yieldedError"
    /\ ~(st.pc = "yieldedStatus" /\ item_artifacts(st.item) # <<>>)

\* The adapter, now a, has yielded: the generator handles the notification
\* and runs to its own next yield.
AgentDeliver(rid, a) ==
    /\ agent' = a
    /\ StreamPull(rid, a.yielded[Len(a.yielded)])
    /\ last' = NoReply
    /\ UNCHANGED <<manager, nextReq>>

\* The consumer resumes the generator of request rid.
AgentStreamNext(rid) ==
    LET st == streams[rid]
    IN  /\ manager = "hiagent"
        /\ st.pc \in {"start", "yieldedStatus", "yieldedArtifact", "yieldedError"}
        /\ IF ~Pulls(st)
           THEN StreamNext(rid, NoItem)
           ELSE CASE st.pc = "start" ->
                       \* line 65: agent.stream(query, sessionId), first item
                       /\ AgentDeliver(rid,
                             agent_start(rid, st.params.message.parts[1].text))
                       /\ UNCHANGED poller
                  [] st.pc # "start" /\ agent.pc = "yielded_lookup" ->
                       \* line 175: await self._run_workflow(customer_id)
                       /\ agent' = [agent EXCEPT !.pc = "run_workflow",
                                                 !.submits = @ + 1]
                       /\ streams' = [streams EXCEPT ![rid].pc = "awaitingAgent"]
                       /\ last' = NoReply
                       /\ UNCHANGED <<manager, nextReq, tasks, prov, poller>>
                  [] st.pc # "start" /\ agent.pc = "yielded_processing" ->
                       \* line 196: await self._wait_for_process(run_id)
                       /\ poller' = wait_for_process("stream",
                                        agent.workflow_response.runId,
                                        default_max_retries)
                       /\ IF poller'.pc = "raised"
                          THEN AgentDeliver(rid, after_wait(agent, poller'.result))
                          ELSE /\ agent' = [agent EXCEPT !.pc = "wait_for_process"]
                               /\ streams' = [streams EXCEPT
                                                 ![rid].pc = "awaitingAgent"]
                               /\ last' = NoReply
                               /\ UNCHANGED <<manager, nextReq, tasks, prov>>
                  [] st.pc # "start" /\ agent.pc = "yielded_last" ->
                       \* return, or the end of stream
                       /\ agent' = [agent EXCEPT !.pc = "ended"]
                       /\ StreamPull(rid, StreamEnd)
                       /\ last' = NoReply
                       /\ UNCHANGED <<manager, nextReq, poller>>

\* _run_workflow returns or raises.
RunWorkflow(resp) ==
    /\ agent.pc = "run_workflow"
    /\ AgentDeliver(agent.rid, after_workflow(agent, resp))
    /\ UNCHANGED poller

\* When the call made by stream is over, stream goes on with its result.
AfterPoller ==
    IF poller.caller = "stream" /\ poller'.pc \in {"returned", "raised"}
    THEN AgentDeliver(agent.rid, after_wait(agent, poller'.result))
    ELSE UNCHANGED <<manager, tasks, streams, nextReq, last, prov, agent>>

\* _query_process returns or raises.
QueryProcess(out) ==
    /\ poller.pc = "query"
    /\ poller' = after_query(poller, out)
    /\ AfterPoller

\* asyncio.sleep returns.
Sleep ==
    /\ poller.pc = "sleep"
    /\ poller' = after_sleep(poller)
    /\ AfterPoller

\* _wait_for_process called on its own.
WaitForProcess(run_id, max_retries) ==
    /\ poller.pc = "idle"
    /\ agent.pc = "idle"
    /\ poller' = wait_for_process("caller", run_id, max_retries)
    /\ UNCHANGED <<manager, tasks, streams, nextReq, last, prov, agent>>

\* The consumer drops an exhausted generator, and the adapter's with it.
AgentStreamClose(rid) ==
    /\ streams[rid].pc \in {"done", "raised"}
    /\ streams' = [streams EXCEPT ![rid] = NoStream]
    /\ agent' = NoAgent
    /\ poller' = NoPoller
    /\ last' = NoReply
    /\ UNCHANGED <<manager, tasks, nextReq, prov>>

AgentParams ==
    { TaskSendParams(id, sid, {"text"}, msg) :
        id \in TaskIds, sid \in SessionIds,
        msg \in { Message("user", <<TextPart(q)>>) : q \in Queries } }

\* _wait_for_process alone, for every max_retries up to MaxAttempts.
NextPoll ==
    \/ \E run_id \in RunIds, max_retries \in 0..MaxAttempts :
          WaitForProcess(run_id, max_retries)
    \/ \E out \in PollOutcomes : QueryProcess(out)
    \/ Sleep

SpecPoll == Init /\ [][NextPoll]_vars

\* Every poll and every sleep comes back: each HTTP call has a timeout.
SpecPollFair == SpecPoll /\ WF_vars(NextPoll)

\* One streaming send to the hiagent server, from the request to the end of
\* its generator.
InitAgent == Init /\ manager = "hiagent"

NextAgent ==
    \/ \E params \in AgentParams :
          nextReq = 1 /\ HiAgentOnSendTaskSubscribe(params)
    \/ \E rid \in Requests : AgentStreamNext(rid)
    \/ \E resp \in WorkflowOutcomes : RunWorkflow(resp)
    \/ \E out \in PollOutcomes : QueryProcess(out)
    \/ Sleep
    \/ \E rid \in Requests : AgentStreamClose(rid)

SpecAgent == InitAgent /\ [][NextAgent]_vars

(***************************************************************************)
(* The task store on its own: upsert_task and get_task called directly,    *)
(* with any Task value and any request params.                             *)
(***************************************************************************)
TaskValues ==
    { Task(id, sid, TaskStatus(state, NoMessage), msg, artifacts) :
        id \in TaskIds, sid \in SessionIds \cup {None},
        state \in {TaskState.WORKING, TaskState.COMPLETED},
        msg \in {NoMessage, Message("user", <<TextPart("query")>>)},
        artifacts \in {<<>>, <<Artifact(<<TextPart("done")>>)>>} }

\* await self.upsert_task(task), for a Task or a TaskSendParams.
UpsertTask(task) ==
    /\ tasks' = upsert_task(tasks, manager, task)
    /\ last' = Reply(0, "upsert_task",
                     IF task.kind = "TaskSendParams" THEN task ELSE NoParams,
                     None, FALSE,
                     IF task.kind = "Task" THEN task ELSE NoTask, None)
    /\ UNCHANGED <<manager, streams, nextReq, prov, agent, poller>>

\* await self.get_task(task_id): the reply carries what was returned.
GetTask(task_id) ==
    /\ last' = Reply(0, "get_task", [NoParams EXCEPT !.id = task_id], None, FALSE,
                     get_task(tasks, task_id), None)
    /\ UNCHANGED <<manager, tasks, streams, nextReq, prov, agent, poller>>

\* The statuses and artifact lists _update_store is called with; None and
\* the empty list are the same to 'if artifacts'.
StatusValues ==
    { TaskStatus(state, NoMessage) :
        state \in {TaskState.WORKING, TaskState.COMPLETED} }

ArtifactLists == { <<>>, <<Artifact(<<TextPart("done")>>)>> }

\* A status update that creates the record it does not find.
UpdateStoreCreating(task_id, status, artifacts) ==
    /\ get_task(tasks, task_id).kind # "TaskSendParams"
    /\ tasks' = upsert_task(tasks, manager,
                    IF update_store_fails(tasks, task_id)
                    THEN Task(task_id, None, status, NoMessage, artifacts)
                    ELSE UpdatedTask(get_task(tasks, task_id), status, artifacts))
    /\ last' = Reply(0, "_update_store", [NoParams EXCEPT !.id = task_id],
                     "Task", FALSE, get_task(tasks', task_id), None)
    /\ UNCHANGED <<manager, streams, nextReq, prov, agent, poller>>

\* await self._update_store(task_id, status, artifacts), called on a store
\* of Tasks: the reply carries the Task returned or the ValueError raised.
UpdateStore(task_id, status, artifacts) ==
    /\ get_task(tasks, task_id).kind # "TaskSendParams"
    /\ IF update_store_fails(tasks, task_id)
       THEN /\ tasks' = tasks
            /\ last' = Reply(0, "_update_store", [NoParams EXCEPT !.id = task_id],
                             "ValueError", FALSE, NoTask,
                             "Task " \o task_id \o " not found")
       ELSE /\ tasks' = update_store(tasks, manager, task_id, status, artifacts)
            /\ last' = Reply(0, "_update_store", [NoParams EXCEPT !.id = task_id],
                             "Task", FALSE, get_task(tasks', task_id), None)
    /\ UNCHANGED <<manager, streams, nextReq, prov, agent, poller>>

NextStore ==
    \/ \E task \in TaskValues : UpsertTask(task)
    \/ \E params \in AllParams : UpsertTask(params)
    \/ \E task_id \in TaskIds : GetTask(task_id)
    \/ \E task_id \in TaskIds, status \in StatusValues, artifacts \in ArtifactLists :
          UpdateStore(task_id, status, artifacts)

SpecStore == Init /\ [][NextStore]_vars

(***************************************************************************)
(* Messages of one and of two parts, with the non-text part at either      *)
(* position: one send per behaviour, followed to the end of its handling.  *)
(***************************************************************************)
PartsMessages ==
    { Message("user", <<TextPart("query")>>),
      Message("user", <<FilePart>>),
      Message("user", <<TextPart("query"), FilePart>>),
      Message("user", <<FilePart, TextPart("query")>>) }

PartsParams ==
    { TaskSendParams(id, sid, {"text"}, msg) :
        id \in TaskIds, sid \in SessionIds, msg \in PartsMessages }

NextParts ==
    \/ \E params \in PartsParams, res \in InvokeOutcomes :
          nextReq = 1 /\ HiAgentOnSendTask(params, res)
    \/ \E params \in PartsParams, res \in InvokeOutcomes :
          nextReq = 1 /\ CrewOnSendTask(params, res)
    \/ \E params \in PartsParams :
          nextReq = 1 /\ HiAgentOnSendTaskSubscribe(params)
    \/ \E params \in PartsParams :
          nextReq = 1 /\ CrewOnSendTaskSubscribe(params)
    \/ Stream

SpecParts == Init /\ [][NextParts]_vars

(***************************************************************************)
(* crewai: the server with its adapter.  DataAnalysisAgent.stream is an    *)
(* async def without a yield: the call returns a coroutine, which raises   *)
(* NotImplementedError when it is awaited and which 'async for' refuses    *)
(* with a TypeError, as it is no async iterator.  Either way the body's    *)
(* only statement is the raise: nothing is yielded and invoke is not       *)
(* called.                                                                 *)
(***************************************************************************)
StreamUses == {"await", "async for"}

CrewAgentStream(query, use) ==
    /\ manager = "crewai"
    /\ last' = Reply(0, "stream", NoParams,
                     IF use = "await" THEN "NotImplementedError" ELSE "TypeError",
                     FALSE, NoTask,
                     IF use = "await"
                     THEN "Streaming is not supported."
                     ELSE "'async for' requires an object with __aiter__ method"
                             \o ", got coroutine")
    /\ UNCHANGED <<manager, tasks, streams, nextReq, prov, agent, poller>>

InitCrew == Init /\ manager = "crewai"

NextCrew ==
    \/ \E params \in AllParams, res \in InvokeOutcomes : CrewOnSendTask(params, res)
    \/ \E params \in AllParams : CrewOnSendTaskSubscribe(params)
    \/ \E query \in Contents, use \in StreamUses : CrewAgentStream(query, use)

SpecCrew == InitCrew /\ [][NextCrew]_vars

(***************************************************************************)
(* Two clients that send one text request each, for any ids and at any     *)
(* time: the sends and the steps of the open generators interleave in      *)
(* every order.                                                            *)
(***************************************************************************)
Clients == 2

TextParams ==
    { TaskSendParams(id, "s1", {"text"}, Message("user", <<TextPart("query")>>)) :
        id \in TaskIds }

NextInterleaved ==
    \/ \E params \in TextParams, res \in InvokeOutcomes :
          nextReq <= Clients /\ HiAgentOnSendTask(params, res)
    \/ \E params \in TextParams, res \in InvokeOutcomes :
          nextReq <= Clients /\ CrewOnSendTask(params, res)
    \/ \E params \in TextParams :
          nextReq <= Clients /\ HiAgentOnSendTaskSubscribe(params)
    \/ \E params \in TextParams :
          nextReq <= Clients /\ CrewOnSendTaskSubscribe(params)
    \/ Stream

SpecInterleaved == Init /\ [][NextInterleaved]_vars

(***************************************************************************)
(* langgraph adapters (customerID_agent, getorder_agent, shopify_agent):   *)
(* the graph keeps one state per thread_id, the session id; invoke runs    *)
(* the graph, which leaves a structured response in that state or none,    *)
(* and returns get_agent_response(config).  stream is an async generator:  *)
(* it runs the graph item by item, is suspended at each of its yields, and *)
(* yields get_agent_response(config) last.  Neither has a try: a graph run *)
(* that raises leaves them as its exception.                               *)
(***************************************************************************)
LangGraphAgents == {"customerID_agent", "getorder_agent", "shopify_agent"}

\* The thread ids of the graph's checkpointer: the session ids of the calls.
ThreadIds == {"s1", "s2"}

ResponseStatuses == {"input_required", "completed", "error"}

ResponseFormat(status, message) ==
    [kind |-> "ResponseFormat", status |-> status, message |-> message]

\* current_state.values.get('structured_response'): None, an object that is
\* no ResponseFormat, or a ResponseFormat.
NoStructuredResponse == [kind |-> None, status |-> None, message |-> None]
OtherResponse == [kind |-> "dict", status |-> "completed", message |-> "done"]

StructuredResponses ==
    {NoStructuredResponse, OtherResponse} \cup
    { ResponseFormat(status, message) :
        status \in ResponseStatuses, message \in {"done", "please provide an id"} }

\* A get_agent_response that reports an agent error as a completed task.
get_agent_response_error_completes(structured_response) ==
    IF structured_response.kind = "ResponseFormat"
       /\ structured_response.status = "input_required"
    THEN Notification(FALSE, TRUE, structured_response.message)
    ELSE IF structured_response.kind = "ResponseFormat"
       /\ structured_response.status \in {"error", "completed"}
    THEN Notification(TRUE, FALSE, structured_response.message)
    ELSE Notification(FALSE, TRUE,
             "We are unable to process your request at the moment. Please try again.")

get_agent_response(structured_response) ==
    IF structured_response.kind = "ResponseFormat"
       /\ structured_response.status = "input_required"
    THEN Notification(FALSE, TRUE, structured_response.message)
    ELSE IF structured_response.kind = "ResponseFormat"
       /\ structured_response.status = "error"
    THEN Notification(FALSE, TRUE, structured_response.message)
    ELSE IF structured_response.kind = "ResponseFormat"
       /\ structured_response.status = "completed"
    THEN Notification(TRUE, FALSE, structured_response.message)
    ELSE Notification(FALSE, TRUE,
             "We are unable to process your request at the moment. Please try again.")

\* The last message of an item of graph.stream(..., stream_mode="values"):
\* the user's message, an AIMessage with tool_calls, a ToolMessage, or an
\* AIMessage without tool calls.
GraphItems == {"HumanMessage", "AIMessage.tool_calls", "ToolMessage", "AIMessage"}

\* One run of the graph: the items it produces, the error it then raises or
\* None, and the structured response a run that ends leaves in the state of
\* its thread.
GraphRun(items, error, structured_response) ==
    [items |-> items, error |-> error,
     structured_response |-> structured_response]

GraphErrors == {"backend unreachable"}

\* A run that answers at once and one that calls a tool first.
GraphItemLists ==
    { <<"HumanMessage", "AIMessage">>,
      <<"HumanMessage", "AIMessage.tool_calls", "ToolMessage", "AIMessage">> }

GraphRuns ==
    { GraphRun(items, None, structured_response) :
        items \in GraphItemLists,
        structured_response \in StructuredResponses }
    \cup
    { GraphRun(items, error, NoStructuredResponse) :
        items \in GraphItemLists, error \in GraphErrors }

\* The user's text has no part in what the graph run does.
GraphQueries == {"hello"}

NoGraphRun == GraphRun(<<>>, None, NoStructuredResponse)

\* The generator of stream: where it is suspended, its thread, and what its
\* graph run has still to produce.
GraphStreamOf(pc, sessionId, run) ==
    [pc |-> pc, sessionId |-> sessionId, run |-> run]

NoGraphStream == GraphStreamOf("idle", None, NoGraphRun)

\* An adapter with the graph state of every session and its generator.
GraphAgent(name, values) ==
    [name |-> name, values |-> values, stream |-> NoGraphStream]

\* Lines 155-172 of customerID_agent.py: the items stream yields a
\* notification for.
yields_progress(item) == item \in {"AIMessage.tool_calls", "ToolMessage"}

progress_of(item) ==
    IF item = "AIMessage.tool_calls"
    THEN Notification(FALSE, FALSE, "Looking up customer information...")
    ELSE Notification(FALSE, FALSE, "Processing customer data...")

\* The for loop passes the items it yields nothing for.
RECURSIVE skip_silent(_)
skip_silent(items) ==
    IF items = <<>> \/ yields_progress(Head(items)) THEN items
    ELSE skip_silent(Tail(items))

InitGraph ==
    /\ manager = "langgraph"
    /\ tasks = [id \in TaskIds |-> NoTask]
    /\ streams = [r \in Requests |-> NoStream]
    /\ nextReq = 1
    /\ last = NoReply
    /\ prov = [id \in TaskIds |-> [status |-> 0, artifacts |-> 0]]
    /\ agent \in { GraphAgent(name, [sid \in ThreadIds |-> NoStructuredResponse]) :
                     name \in LangGraphAgents }
    /\ poller = NoPoller

\* invoke(query, sessionId): the graph run leaves structured_response in the
\* session's state and the reply is get_agent_response of that state; a run
\* that raises leaves the state as it was and invoke as its exception.
GraphInvoke(query, sessionId, run) ==
    /\ IF run.error # None
       THEN /\ last' = Reply(0, "invoke",
                             [NoParams EXCEPT !.sessionId = sessionId],
                             "RuntimeError", TRUE, NoTask, run.error)
            /\ UNCHANGED agent
       ELSE /\ agent' = [agent EXCEPT
                            !.values[sessionId] = run.structured_response]
            /\ last' = Reply(0, "invoke",
                             [NoParams EXCEPT !.sessionId = sessionId],
                             get_agent_response(agent'.values[sessionId]),
                             TRUE, NoTask, None)
    /\ UNCHANGED <<manager, tasks, streams, nextReq, prov, poller>>

\* stream(query, sessionId): the call makes the generator and runs nothing.
GraphStream(query, sessionId, run) ==
    /\ agent.stream.pc = "idle"
    /\ agent' = [agent EXCEPT !.stream = GraphStreamOf("start", sessionId, run)]
    /\ last' = NoReply
    /\ UNCHANGED <<manager, tasks, streams, nextReq, prov, poller>>

\* The consumer resumes the generator, which runs to its next yield: a
\* notification of progress, or, when the graph run is over,
\* get_agent_response of the state the run left; an exception of the graph
\* run ends it, and so does the resumption after the last yield.
GraphStreamNext ==
    LET st   == agent.stream
        sid  == st.sessionId
        rest == skip_silent(st.run.items)
        params == [NoParams EXCEPT !.sessionId = sid]
    IN  /\ st.pc \in {"start", "yielded", "yielded_last"}
        /\ IF st.pc = "yielded_last"
           THEN /\ agent' = [agent EXCEPT !.stream = NoGraphStream]
                /\ last' = Reply(0, "stream", params, StreamEnd, TRUE, NoTask,
                                 None)
           ELSE IF rest # <<>>
           THEN /\ agent' = [agent EXCEPT
                                !.stream.pc = "yielded",
                                !.stream.run.items = Tail(rest)]
                /\ last' = Reply(0, "stream", params, progress_of(Head(rest)),
                                 TRUE, NoTask, None)
           ELSE IF st.run.error # None
           THEN /\ agent' = [agent EXCEPT !.stream = NoGraphStream]
                /\ last' = Reply(0, "stream", params, "RuntimeError", TRUE,
                                 NoTask, st.run.error)
           ELSE /\ agent' = [agent EXCEPT
                                !.values[sid] = st.run.structured_response,
                                !.stream.pc = "yielded_last",
                                !.stream.run = NoGraphRun]
                /\ last' = Reply(0, "stream", params,
                                 get_agent_response(agent'.values[sid]),
                                 TRUE, NoTask, None)
        /\ UNCHANGED <<manager, tasks, streams, nextReq, prov, poller>>

\* get_agent_response(config) on the state the session has.
GetAgentResponse(sessionId) ==
    /\ last' = Reply(0, "get_agent_response",
                     [NoParams EXCEPT !.sessionId = sessionId],
                     get_agent_response(agent.values[sessionId]),
                     FALSE, NoTask, None)
    /\ UNCHANGED <<manager, tasks, streams, nextReq, prov, agent, poller>>

NextGraph ==
    \/ \E query \in GraphQueries, sessionId \in ThreadIds, run \in GraphRuns :
          GraphInvoke(query, sessionId, run)
    \/ \E query \in GraphQueries, sessionId \in ThreadIds, run \in GraphRuns :
          GraphStream(query, sessionId, run)
    \/ GraphStreamNext
    \/ \E sessionId \in ThreadIds : GetAgentResponse(sessionId)

SpecGraph == InitGraph /\ [][NextGraph]_vars

(***************************************************************************)
(* crewai: the manager run with DataAnalysisAgent.invoke, whose backend    *)
(* call analyst_crew.kickoff returns a response, returns nothing usable or *)
(* raises.                                                                 *)
(***************************************************************************)
KickoffOutcomes ==
    [kind : {"return"}, raw : Contents \cup {""}, error : {None}]
    \cup
    [kind : {"none"}, raw : {None}, error : {None}]
    \cup
    [kind : {"raise"}, raw : {None}, error : Errors]

\* What invoke hands to the manager: an AnalysisResult, as an invoke outcome.
AnalysisResult(content) ==
    [kind |-> "ok", content |-> content, require_user_input |-> FALSE,
     error |-> None]

\* An invoke that lets the backend's exception through.
crew_invoke_raising(out) ==
    IF out.kind = "raise"
    THEN [kind |-> "raise", content |-> None, require_user_input |-> FALSE,
          error |-> out.error]
    ELSE IF out.kind = "none" \/ out.raw = ""
    THEN AnalysisResult(
             "Sorry, I couldn't analyze the data at this moment. Please try again.")
    ELSE AnalysisResult(out.raw)

\* Lines 212-235.
crew_invoke(out) ==
    IF out.kind = "raise"
    THEN AnalysisResult("Error performing analysis: " \o out.error)
    ELSE IF out.kind = "none" \/ out.raw = ""
    THEN AnalysisResult(
             "Sorry, I couldn't analyze the data at this moment. Please try again.")
    ELSE AnalysisResult(out.raw)

\* on_send_task with the result of self.agent.invoke(query).
CrewSendWithAgent(params, out) == CrewOnSendTask(params, crew_invoke(out))

NextCrewAgent ==
    \E params \in AllParams, out \in KickoffOutcomes : CrewSendWithAgent(params, out)

SpecCrewAgent == InitCrew /\ [][NextCrewAgent]_vars

(***************************************************************************)
(* Vocabulary of the properties.                                           *)
(***************************************************************************)
ActiveStates   == {TaskState.SUBMITTED, TaskState.WORKING}
TerminalStates == {TaskState.COMPLETED, TaskState.ERROR, TaskState.INPUT_REQUIRED}

\* The step just taken was a send for id that passed validation.
AcceptedSend(id) ==
    /\ last.rid # 0
    /\ last.params.id = id
    /\ last.result \notin {"IncompatibleTypes", "NotImplementedError"}

\* The step just taken was a send whose accepted output modes share no type
\* with the adapter's supported content types.
IncompatibleSend ==
    /\ last.rid # 0
    /\ (last.params.acceptedOutputModes \cap SUPPORTED_CONTENT_TYPES(manager)) = {}

\* The crewai manager implements the synchronous send only.
Implements(mgr, op) == mgr = "hiagent" \/ op = "on_send_task"

IsTerminalItem(item) ==
    item.kind = "item" /\ (item.is_task_complete \/ item.require_user_input)

Raised(st) == \E i \in 1..Len(st.items) : st.items[i].kind = "raise"

Suspended(st) == st.pc \in {"yieldedStatus", "yieldedArtifact", "yieldedError"}

LastEvent(st) == st.events[Len(st.events)]

(***************************************************************************)
(* C1.  Within one turn of a task (between two accepted sends for its id), *)
(* once getTask has returned completed, error or input-required it never   *)
(* returns submitted or working again.                                     *)
(***************************************************************************)
C1_StatusNeverRegresses ==
    [][\A id \in TaskIds :
          (StateOf(get_task(tasks, id)) \in TerminalStates /\ ~AcceptedSend(id)')
             => StateOf(get_task(tasks, id))' \notin ActiveStates]_vars

(***************************************************************************)
(* C2.  A streaming send that passed validation emits exactly one event    *)
(* with final = true, and no event follows it.  Stated for the adapters    *)
(* that keep their contract (notifications with neither flag set, then one *)
(* terminal notification, no failure), which every adapter sequence the    *)
(* claim speaks of includes.                                               *)
(***************************************************************************)
\* The notifications so far are a prefix of a sequence the contract allows.
KeepsContract(st) ==
    \A i \in 1..Len(st.items) :
       /\ st.items[i].kind = "item"
       /\ IsTerminalItem(st.items[i]) => i = Len(st.items)

\* The adapter's stream has ended and the whole sequence kept the contract.
KeptContract(st) ==
    /\ st.pc = "done"
    /\ KeepsContract(st)
    /\ st.items # <<>>
    /\ IsTerminalItem(st.items[Len(st.items)])

C2_ExactlyOneFinalAndLast ==
    \A r \in Requests :
       LET ev == streams[r].events
       IN  /\ KeepsContract(streams[r]) =>
                 \A i \in 1..Len(ev) : ev[i].final => i = Len(ev)
           /\ KeptContract(streams[r]) =>
                 Cardinality({i \in 1..Len(ev) : ev[i].final}) = 1

(***************************************************************************)
(* C3.  When agent.invoke fails in a synchronous send, after the initial   *)
(* upsert, getTask returns the task in error state (both managers).        *)
(***************************************************************************)
C3_InvokeFailureLeavesErrorTask ==
    (last.op = "on_send_task" /\ last.invoked /\ last.result = "ValueError")
       => StateOf(get_task(tasks, last.params.id)) = TaskState.ERROR

(***************************************************************************)
(* C4.  When the adapter's stream raises, the last event delivered is a    *)
(* StatusUpdate with status error and final = true, and the store holds    *)
(* the task in error state.                                                *)
(***************************************************************************)
C4_StreamFailureEndsWithErrorStatus ==
    \A r \in Requests :
       LET st == streams[r]
       IN  (Raised(st) /\ st.pc \in {"yieldedError", "done"}) =>
              /\ LastEvent(st).kind = "status"
              /\ LastEvent(st).status.state = TaskState.ERROR
              /\ LastEvent(st).final
              /\ StateOf(get_task(tasks, st.params.id)) = TaskState.ERROR

(***************************************************************************)
(* C5.  A send whose accepted output modes are incompatible with the       *)
(* adapter's content types returns the incompatible-types error, does not  *)
(* invoke the adapter (no invoke call, no generator created) and leaves    *)
(* the task store as it was.  Checked for the sends a manager implements.  *)
(***************************************************************************)
C5_IncompatibleModalityNoEffect ==
    [][(IncompatibleSend' /\ Implements(manager, last'.op)) =>
          /\ last'.result = "IncompatibleTypes"
          /\ ~last'.invoked
          /\ streams' = streams
          /\ tasks' = tasks]_vars

\* An incompatible streaming send for an id whose task is already stored.
C5_Witness ==
    /\ IncompatibleSend
    /\ last.op = "on_send_task_subscribe"
    /\ last.result = "IncompatibleTypes"
    /\ get_task(tasks, last.params.id) # NoTask

(***************************************************************************)
(* C6.  The generator consumes no adapter notification after the first     *)
(* terminal one (is_task_complete or require_user_input set).              *)
(***************************************************************************)
C6_NothingConsumedAfterTerminal ==
    \A r \in Requests :
       \A i \in 1..Len(streams[r].items) :
          IsTerminalItem(streams[r].items[i]) => i = Len(streams[r].items)

(***************************************************************************)
(* C7.  Every StatusUpdate with final = true is directly preceded by the   *)
(* one ArtifactUpdate that carries the content of its notification.        *)
(***************************************************************************)
C7_ArtifactBeforeFinalStatus ==
    \A r \in Requests :
       LET ev == streams[r].events
       IN  \A k \in 1..Len(ev) :
              (ev[k].kind = "status" /\ ev[k].final) =>
                 /\ k > 1
                 /\ ev[k-1] = TaskArtifactUpdateEvent(
                                 streams[r].params.id,
                                 Artifact(ev[k].status.message.parts))
                 /\ Cardinality({j \in 1..Len(ev) :
                        /\ ev[j].kind = "artifact"
                        /\ ev[j].artifact.parts = ev[k].status.message.parts}) = 1

(***************************************************************************)
(* C8.  Every event of a stream has its own preceding store write, and at  *)
(* the moment an event is emitted getTask shows what the event reports.    *)
(***************************************************************************)
Reports(ev, rec) ==
    CASE ev.kind = "status"   -> /\ rec.kind = "Task"
                                 /\ rec.status = ev.status
      [] ev.kind = "artifact" -> /\ rec.kind = "Task"
                                 /\ rec.artifacts = <<ev.artifact>>
      [] OTHER                -> StateOf(rec) = TaskState.ERROR

C8_OneStoreWritePerEvent ==
    \A r \in Requests :
       LET st == streams[r]
       IN  /\ st.writes = Len(st.events)
           /\ Suspended(st) =>
                 Reports(LastEvent(st), get_task(tasks, st.params.id))

(***************************************************************************)
(* C9.  While a generator is suspended after its event n, getTask returns  *)
(* the task as written for event n, whatever other sends do meanwhile.     *)
(***************************************************************************)
C9_StoreReflectsLastDeliveredEvent ==
    \A r \in Requests :
       streams[r].pc \in {"yieldedStatus", "yieldedArtifact"} =>
          get_task(tasks, streams[r].params.id) = streams[r].latest_task

(***************************************************************************)
(* C10.  Every stored record is the work of one send: the artifacts of a   *)
(* stored task were written by the send that wrote its status.             *)
(***************************************************************************)
C10_RecordWrittenByOneSend ==
    \A id \in TaskIds :
       ArtifactsOf(get_task(tasks, id)) # <<>> =>
          prov[id].artifacts = prov[id].status

(***************************************************************************)
(* Vocabulary of the poller properties.                                    *)
(***************************************************************************)
\* The status reported by poll i of the call (None when the poll raised).
PolledStatus(i) == poller.polls[i].out.process_data.status

PolledProcessing(i) ==
    poller.polls[i].out.kind = "return" /\ PolledStatus(i) = "processing"

PolledSuccess(i) ==
    poller.polls[i].out.kind = "return" /\ PolledStatus(i) = "success"

\* A status that is neither success nor processing.
PolledFailure(i) ==
    /\ poller.polls[i].out.kind = "return"
    /\ PolledStatus(i) \notin {"success", "processing"}

OnlyProcessing == \A i \in 1..Len(poller.polls) : PolledProcessing(i)

TimedOut ==
    /\ poller.pc = "raised"
    /\ poller.result.kind = "TimeoutError"

(***************************************************************************)
(* C11.  For every max_retries N >= 0 and every sequence of poll results,  *)
(* _wait_for_process makes at most N polls and none after a poll reported  *)
(* success or a failure status: success at poll k returns that poll's      *)
(* payload after exactly k polls, a failure status at poll k raises after  *)
(* exactly k polls with the reported status in the error, and N polls that *)
(* all report processing end in the timeout error.                         *)
(***************************************************************************)
C11_PollsBoundedAndStopAtVerdict ==
    LET n == Len(poller.polls)
    IN  /\ n <= poller.max_retries
        /\ \A k \in 1..n :
              /\ (PolledSuccess(k) \/ PolledFailure(k)) => k = n
              /\ PolledSuccess(k) =>
                    /\ poller.pc = "returned"
                    /\ poller.result.kind = "return"
                    /\ poller.result.process_data = poller.polls[k].out.process_data
              /\ PolledFailure(k) =>
                    /\ poller.pc = "raised"
                    /\ poller.result.kind = "ValueError"
                    /\ poller.result.message =
                          "Process failed with status: " \o PolledStatus(k)
        /\ (poller.pc \notin {"idle", "sleep"} /\ n = poller.max_retries
               /\ OnlyProcessing) => TimedOut

\* A call with the largest max_retries that a failure status ended at its
\* second poll.
C11_Witness ==
    /\ poller.max_retries = MaxAttempts
    /\ Len(poller.polls) = 2
    /\ PolledProcessing(1)
    /\ PolledFailure(2)
    /\ poller.pc = "raised"

(***************************************************************************)
(* C12.  With a poller that always reports processing, _wait_for_process   *)
(* called with max_retries = N terminates: it raises the timeout error     *)
(* after exactly N polls and at most N delays.                             *)
(***************************************************************************)
C12_AlwaysProcessingTimesOut ==
    ([]OnlyProcessing) =>
        <>(/\ TimedOut
           /\ Len(poller.polls) = poller.max_retries
           /\ Len(poller.delays) <= poller.max_retries)

\* max_retries = 5, five polls that all reported processing, timeout raised.
C12_Witness ==
    /\ TimedOut
    /\ poller.max_retries = default_max_retries
    /\ Len(poller.polls) = default_max_retries
    /\ OnlyProcessing
    /\ Len(poller.delays) \in 1..default_max_retries

(***************************************************************************)
(* C13.  When the remote workflow behind the hiagent adapter fails (the    *)
(* submission raises or returns no run id, a poll reports a failure        *)
(* status, the polls are exhausted, or extraction finds no customer), the  *)
(* manager's generator receives the failure as an error of the adapter and *)
(* the task of the streaming send ends in error state, not in completed.   *)
(***************************************************************************)
WorkflowFailed ==
    \/ agent.workflow_response.kind = "raise"
    \/ agent.workflow_response.kind = "return" /\ agent.workflow_response.runId = None
    \/ /\ poller.pc = "raised"
       /\ poller.result.kind = "ValueError"
       /\ PolledFailure(Len(poller.polls))
    \/ TimedOut
    \/ agent.process_data.status = "success" /\ falsy(agent.customer_details)

C13_WorkflowFailureEndsInError ==
    \A r \in Requests :
       (streams[r].pc = "done" /\ agent.rid = r /\ WorkflowFailed) =>
          /\ Raised(streams[r])
          /\ StateOf(get_task(tasks, streams[r].params.id)) = TaskState.ERROR

(***************************************************************************)
(* C14.  If agent.invoke raises an error with message m during a           *)
(* synchronous send, getTask afterwards returns a Task in error state      *)
(* whose status message is exactly m.                                      *)
(***************************************************************************)
\* The step just taken was a synchronous send whose agent.invoke raised m.
InvokeRaised(m) ==
    /\ last.op = "on_send_task"
    /\ last.invoked
    /\ last.result = "ValueError"
    /\ last.error = "Error invoking agent: " \o m

C14_InvokeErrorMessageStored ==
    \A m \in Errors :
       InvokeRaised(m) =>
          LET rec == get_task(tasks, last.params.id)
          IN  /\ rec.kind = "Task"
              /\ rec.status.state = TaskState.ERROR
              /\ rec.status.message.parts = <<TextPart(m)>>

(***************************************************************************)
(* C15.  For every content c: when agent.invoke returns a completed result *)
(* with content c, on_send_task returns a Task in completed state with     *)
(* exactly one Artifact whose single text part is c, and the task stored   *)
(* under that id has the same status and artifacts (both managers).        *)
(***************************************************************************)
\* This step is on_send_task(params) in which agent.invoke returned res.
InvokeReturned(params, res) ==
    /\ HiAgentOnSendTask(params, res) \/ CrewOnSendTask(params, res)
    /\ last'.invoked
    /\ res.kind = "ok"

C15_CompletedResultBecomesOneArtifact ==
    [][\A params \in AllParams, res \in InvokeOutcomes :
          (InvokeReturned(params, res) /\ ~res.require_user_input) =>
             /\ last'.result = "Task"
             /\ last'.task.status.state = TaskState.COMPLETED
             /\ last'.task.artifacts = <<Artifact(<<TextPart(res.content)>>)>>
             /\ get_task(tasks', params.id).kind = "Task"
             /\ get_task(tasks', params.id).status = last'.task.status
             /\ get_task(tasks', params.id).artifacts = last'.task.artifacts]_vars

\* A second synchronous send for an id completed with the other content.
C15_Witness ==
    /\ last.rid = 2
    /\ last.op = "on_send_task"
    /\ last.result = "Task"
    /\ last.task.status.state = TaskState.COMPLETED
    /\ last.task.artifacts = <<Artifact(<<TextPart("top product is X")>>)>>
    /\ get_task(tasks, last.params.id) = last.task

(***************************************************************************)
(* C16.  When agent.stream yields one notification with neither flag set   *)
(* and then one with is_task_complete set and content c, and ends, the     *)
(* subscriber gets exactly two StatusUpdate events, working (final false)  *)
(* then completed (final true), and exactly one ArtifactUpdate, which      *)
(* carries c; the first notification produces no ArtifactUpdate.           *)
(***************************************************************************)
IsProgressItem(item) ==
    item.kind = "item" /\ ~item.is_task_complete /\ ~item.require_user_input

IsCompleteItem(item) ==
    item.kind = "item" /\ item.is_task_complete /\ ~item.require_user_input

StatusEvents(st)   == SelectSeq(st.events, LAMBDA e : e.kind = "status")
ArtifactEvents(st) == SelectSeq(st.events, LAMBDA e : e.kind = "artifact")

\* The adapter yielded a progress notification, a completing one, and ended.
ScenarioB(st) ==
    /\ st.pc = "done"
    /\ Len(st.items) = 2
    /\ IsProgressItem(st.items[1])
    /\ IsCompleteItem(st.items[2])

C16_ProgressThenComplete ==
    \A r \in Requests :
       LET st == streams[r]
       IN  /\ (Len(st.items) = 1 /\ IsProgressItem(st.items[1])) =>
                 ArtifactEvents(st) = <<>>
           /\ ScenarioB(st) =>
                 /\ Len(StatusEvents(st)) = 2
                 /\ StatusEvents(st)[1].status.state = TaskState.WORKING
                 /\ ~StatusEvents(st)[1].final
                 /\ StatusEvents(st)[2].status.state = TaskState.COMPLETED
                 /\ StatusEvents(st)[2].final
                 /\ Len(ArtifactEvents(st)) = 1
                 /\ ArtifactEvents(st)[1].artifact =
                       Artifact(<<TextPart(st.items[2].content)>>)
                 /\ Len(st.events) = 3

C16_Witness ==
    \E r \in Requests :
       /\ ScenarioB(streams[r])
       /\ streams[r].items[2].content = "done"
       /\ Len(streams[r].events) = 3

(***************************************************************************)
(* C17.  For every notification the generator consumes, over the four      *)
(* combinations of (is_task_complete, require_user_input): the StatusUpdate *)
(* derived from it has status working exactly when neither flag is set,    *)
(* input-required when require_user_input is set and completed when        *)
(* is_task_complete is set; final is true exactly when the status is not   *)
(* working; and the store is updated with that same status.                *)
(***************************************************************************)
\* In this step the generator of request r consumed a notification.
Consumed(r) ==
    /\ Len(streams'[r].items) = Len(streams[r].items) + 1
    /\ streams'[r].items[Len(streams'[r].items)].kind = "item"

\* The step emitted one more event, a StatusUpdate, whose status is in the
\* store, with final set exactly when the status is not working.
EmitsStoredStatus(r) ==
    LET ev == streams'[r].events[Len(streams'[r].events)]
    IN  /\ Len(streams'[r].events) = Len(streams[r].events) + 1
        /\ ev.kind = "status"
        /\ ev.final <=> (ev.status.state # TaskState.WORKING)
        /\ get_task(tasks', streams'[r].params.id).kind = "Task"
        /\ get_task(tasks', streams'[r].params.id).status = ev.status

C17_StatusDerivedFromFlags ==
    [][\A r \in Requests :
          Consumed(r) =>
             LET item == streams'[r].items[Len(streams'[r].items)]
                 ev   == streams'[r].events[Len(streams'[r].events)]
             IN  /\ EmitsStoredStatus(r)
                 /\ (ev.status.state = TaskState.WORKING) <=>
                       (~item.is_task_complete /\ ~item.require_user_input)
                 /\ item.require_user_input =>
                       ev.status.state = TaskState.INPUT_REQUIRED
                 /\ item.is_task_complete =>
                       ev.status.state = TaskState.COMPLETED]_vars

\* C17 as amended: completed when is_task_complete is set and
\* require_user_input is not; with both flags set the status is
\* input-required.
C17_StatusDerivedFromFlagsInputFirst ==
    [][\A r \in Requests :
          Consumed(r) =>
             LET item == streams'[r].items[Len(streams'[r].items)]
                 ev   == streams'[r].events[Len(streams'[r].events)]
             IN  /\ EmitsStoredStatus(r)
                 /\ (ev.status.state = TaskState.WORKING) <=>
                       (~item.is_task_complete /\ ~item.require_user_input)
                 /\ item.require_user_input =>
                       ev.status.state = TaskState.INPUT_REQUIRED
                 /\ (item.is_task_complete /\ ~item.require_user_input) =>
                       ev.status.state = TaskState.COMPLETED]_vars

\* A notification with both flags set was consumed: input-required, final.
C17_Witness ==
    \E r \in Requests :
       /\ streams[r].pc = "yieldedStatus"
       /\ streams[r].item.is_task_complete
       /\ streams[r].item.require_user_input
       /\ LastEvent(streams[r]).status.state = TaskState.INPUT_REQUIRED
       /\ LastEvent(streams[r]).final
       /\ StateOf(get_task(tasks, streams[r].params.id)) = TaskState.INPUT_REQUIRED

(***************************************************************************)
(* C18.  Every send that passes validation (a first send or a new turn     *)
(* after input-required) first stores the task with status submitted,      *)
(* before the adapter is called; the status becomes working only when the  *)
(* adapter call starts.  Observed after the sends that have stored the     *)
(* task and not called the adapter: an accepted streaming send, whose      *)
(* generator has not run yet, and a synchronous send rejected for its      *)
(* non-text part.                                                          *)
(***************************************************************************)
C18_StoredSubmittedBeforeAdapterCall ==
    \A id \in TaskIds :
       (AcceptedSend(id) /\ ~last.invoked) =>
          StateOf(get_task(tasks, id)) = TaskState.SUBMITTED

(***************************************************************************)
(* C19.  Every on_send_task call ends by returning a value: a Task in a    *)
(* terminal state (completed, input-required or error) or a structured     *)
(* error result.  No failure is raised past the manager and no returned    *)
(* Task is in submitted or working state.                                  *)
(***************************************************************************)
C19_SendAlwaysReturns ==
    last.op = "on_send_task" =>
       /\ last.result \in {"Task", "IncompatibleTypes"}
       /\ last.result = "Task" => last.task.status.state \in TerminalStates

(***************************************************************************)
(* C20.  When on_send_task finishes, what the caller got and what the      *)
(* store holds agree: a returned Task has the status and the artifacts     *)
(* getTask returns right afterwards, and a surfaced adapter failure comes  *)
(* with a stored Task in error state.                                      *)
(***************************************************************************)
C20_ReplyAgreesWithStore ==
    last.op = "on_send_task" =>
       LET rec == get_task(tasks, last.params.id)
       IN  /\ last.result = "Task" =>
                 /\ rec.kind = "Task"
                 /\ rec.status = last.task.status
                 /\ rec.artifacts = last.task.artifacts
           /\ (last.result = "ValueError" /\ last.invoked) =>
                 /\ rec.kind = "Task"
                 /\ rec.status.state = TaskState.ERROR

(***************************************************************************)
(* C21.  The synchronous and the streaming send agree: for the same        *)
(* terminal adapter result (flags and content), the Task that on_send_task *)
(* leaves in the store and the Task in the store after the last event of   *)
(* on_send_task_subscribe have the same status and the same artifacts.     *)
(* Compared between a finished streaming send whose adapter yielded that   *)
(* one terminal notification and a synchronous send for another id.        *)
(***************************************************************************)
\* The adapter's stream was one terminal notification, and it has ended.
OneTerminalItem(st) ==
    /\ st.pc = "done"
    /\ Len(st.items) = 1
    /\ IsTerminalItem(st.items[1])

\* agent.invoke returned what the stream yielded.
SameResult(res, item) ==
    /\ res.kind = "ok"
    /\ res.content = item.content
    /\ res.require_user_input = item.require_user_input

C21_SyncAndStreamingAgree ==
    [][\A params \in AllParams, res \in InvokeOutcomes, r \in Requests :
          (/\ OneTerminalItem(streams[r])
           /\ params.id # streams[r].params.id
           /\ HiAgentOnSendTask(params, res)
           /\ last'.invoked
           /\ SameResult(res, streams[r].items[1])) =>
             LET sync   == get_task(tasks', params.id)
                 stream == get_task(tasks', streams[r].params.id)
             IN  /\ sync.status = stream.status
                 /\ sync.artifacts = stream.artifacts]_vars

(***************************************************************************)
(* C22.  Upsert is idempotent: for every store state and every Task value  *)
(* t, upsert(t) done twice leaves the store as upsert(t) done once does,   *)
(* and get(t.id) then returns exactly t (both managers).                   *)
(***************************************************************************)
C22_UpsertIdempotent ==
    \A t \in TaskValues :
       LET once  == upsert_task(tasks, manager, t)
           twice == upsert_task(once, manager, t)
       IN  /\ twice = once
           /\ get_task(twice, t.id) = t

\* A Task with an artifact has just been upserted over a stored Task, and
\* the other id is stored too.
C22_Witness ==
    /\ last.op = "upsert_task"
    /\ last.task.kind = "Task"
    /\ last.task.artifacts # <<>>
    /\ get_task(tasks, last.task.id) = last.task
    /\ \A id \in TaskIds : get_task(tasks, id) # NoTask

(***************************************************************************)
(* C23.  Upsert is last-write-wins with no field merge: after any sequence *)
(* of upserts, get(id) returns exactly the Task value of the most recent   *)
(* upsert for that id, nothing (status, artifacts, message, session id)    *)
(* being kept from the record stored before.  Every upsert of a Task       *)
(* stores exactly that value under its id and leaves the other ids alone.  *)
(***************************************************************************)
C23_UpsertLastWriteWins ==
    [][(last'.op = "upsert_task" /\ last'.task.kind = "Task") =>
          /\ get_task(tasks', last'.task.id) = last'.task
          /\ \A id \in TaskIds \ {last'.task.id} :
                get_task(tasks', id) = get_task(tasks, id)]_vars

\* A Task without session id, message and artifacts is stored where a Task
\* with all of them was stored before (seen through the last upsert).
C23_Witness ==
    /\ last.op = "upsert_task"
    /\ last.task.kind = "Task"
    /\ last.task.sessionId = None
    /\ last.task.message = NoMessage
    /\ last.task.artifacts = <<>>
    /\ get_task(tasks, last.task.id) = last.task

(***************************************************************************)
(* C24.  In every reachable state of the task store, each record stored    *)
(* under key k is a Task whose identifier equals k (both managers, after   *)
(* the initial upsert, the status updates and the final upsert).           *)
(***************************************************************************)
C24_StoredRecordIsTaskWithItsKey ==
    \A k \in TaskIds :
       get_task(tasks, k) # NoTask =>
          /\ get_task(tasks, k).kind = "Task"
          /\ get_task(tasks, k).id = k

(***************************************************************************)
(* C25.  A send whose message contains a non-text part, at any position of *)
(* the message's parts, is rejected with an error and the adapter is not   *)
(* invoked for it: a synchronous send replies with an error without having *)
(* called invoke, and the generator of a streaming send raises at its      *)
(* first resumption, before it asks the adapter for an item.               *)
(***************************************************************************)
HasNonTextPart(message) ==
    \E i \in 1..Len(message.parts) : message.parts[i].type # "text"

C25_NonTextPartRejected ==
    /\ (last.op = "on_send_task" /\ HasNonTextPart(last.params.message)) =>
          (last.result # "Task" /\ ~last.invoked)
    /\ \A r \in Requests :
          HasNonTextPart(streams[r].params.message) =>
             streams[r].pc \in {"start", "raised"}

(***************************************************************************)
(* C26.  On the crewai server a streaming request fails at once with the   *)
(* unsupported-operation error (NotImplementedError): the step of          *)
(* on_send_task_subscribe creates no generator, so no notification and no  *)
(* event exists for it, invoke is not called and the task store is left as *)
(* it was.  The adapter's stream likewise ends in an error whichever way   *)
(* it is consumed (NotImplementedError when awaited), yields nothing,      *)
(* calls nothing and changes no record.                                    *)
(***************************************************************************)
C26_CrewStreamingUnsupported ==
    [][/\ (last'.op = "on_send_task_subscribe" /\ nextReq' = nextReq + 1) =>
             /\ last'.result = "NotImplementedError"
             /\ ~last'.invoked
             /\ last'.task = NoTask
             /\ streams' = streams /\ \A r \in Requests : streams'[r] = NoStream
             /\ tasks' = tasks
       /\ (last'.op = "stream") =>
             /\ last'.result \in {"NotImplementedError", "TypeError"}
             /\ last'.error # None
             /\ ~last'.invoked
             /\ last'.task = NoTask
             /\ streams' = streams /\ \A r \in Requests : streams'[r] = NoStream
             /\ tasks' = tasks]_vars

\* A streaming request has just failed on a server whose store holds the
\* Task of an earlier synchronous send.
C26_Witness ==
    /\ manager = "crewai"
    /\ last.op = "on_send_task_subscribe"
    /\ last.result = "NotImplementedError"
    /\ \E id \in TaskIds : StateOf(get_task(tasks, id)) = TaskState.COMPLETED

(***************************************************************************)
(* C27.  Whatever the query and whatever the remote calls do (the submit   *)
(* returns a run id, returns none or raises; each poll reports a status or *)
(* raises; the payload holds a customer or not), the notifications the     *)
(* hiagent adapter's stream has produced are progress notifications        *)
(* (neither flag set) followed, once the stream has produced its last one, *)
(* by exactly one notification with is_task_complete or require_user_input *)
(* set, after which the stream ends.  The sequence is finite: at most      *)
(* three notifications after at most default_max_retries polls.            *)
(***************************************************************************)
HasFlag(n) == n.is_task_complete \/ n.require_user_input

C27_ProgressThenOneTerminal ==
    LET ys == agent.yielded
        n  == Len(ys)
    IN  /\ n <= 3
        /\ Len(poller.polls) <= default_max_retries
        /\ agent.pc \in {"yielded_lookup", "run_workflow", "yielded_processing",
                         "wait_for_process"} =>
              \A i \in 1..n : ~HasFlag(ys[i])
        /\ agent.pc \in {"yielded_last", "ended"} =>
              /\ n >= 1
              /\ HasFlag(ys[n])
              /\ \A i \in 1..(n - 1) : ~HasFlag(ys[i])

\* The stream has ended after two progress notifications and a last one;
\* its polls were retried before one raised.
C27_Witness ==
    /\ agent.pc = "ended"
    /\ Len(agent.yielded) = 3
    /\ Len(poller.polls) >= 2
    /\ poller.pc = "raised"

(***************************************************************************)
(* C28.  What _extract_customer_details returns for a successful payload   *)
(* is a complete customer record (first name, last name and email all      *)
(* there) or the failure signal None, never a record with a field missing; *)
(* and a streamed "Customer Details" result is that of a complete record.  *)
(***************************************************************************)
Complete(customer) ==
    /\ customer.kind = "dict"
    /\ \A v \in {customer.firstName, customer.lastName, customer.email} :
          v \notin {None, Null}

ReportsDetails(a) ==
    /\ a.pc \in {"yielded_last", "ended"}
    /\ a.customer_details.kind = "dict"
    /\ ~falsy(a.customer_details)
    /\ ~format_fails(a.customer_details)
    /\ a.yielded[Len(a.yielded)].content = format_response(a.customer_details)

C28_ExtractionCompleteOrFails ==
    /\ agent.customer_details = NoCustomer \/ Complete(agent.customer_details)
    /\ ReportsDetails(agent) => Complete(agent.customer_details)

(***************************************************************************)
(* C29.  In _wait_for_process a poll whose status is neither success nor   *)
(* processing (pending, failed, or a status the API does not document) is  *)
(* a hard failure: the call raises at that poll, with the reported status  *)
(* in the error, having slept only after the polls before it, and polls no *)
(* more.  Only processing is retried: every poll that was followed by      *)
(* another one reported processing.                                        *)
(***************************************************************************)
C29_OtherStatusIsHardFailure ==
    LET n == Len(poller.polls)
    IN  /\ \A k \in 1..n :
              PolledFailure(k) =>
                 /\ k = n
                 /\ poller.pc = "raised"
                 /\ poller.result.kind = "ValueError"
                 /\ poller.result.message =
                       "Process failed with status: " \o PolledStatus(k)
                 /\ Len(poller.delays) = k - 1
        /\ \A k \in 1..(n - 1) : PolledProcessing(k)

\* A status the API does not document ended the call at its third poll,
\* after two delays.
C29_Witness ==
    /\ Len(poller.polls) = 3
    /\ poller.polls[3].out.kind = "return"
    /\ PolledStatus(3) = "cancelled"
    /\ poller.pc = "raised"
    /\ Len(poller.delays) = 2

(***************************************************************************)
(* C30.  Every send that passed validation and reached the adapter leaves   *)
(* its task, once the send has finished, in one of the states completed,   *)
(* input-required or error: so after a synchronous send has returned or    *)
(* raised, and after the generator of a streaming send is exhausted, also  *)
(* when the adapter failed or its stream ended without a terminal          *)
(* notification.                                                           *)
(***************************************************************************)
C30_FinishedSendLeavesTerminalState ==
    /\ \A id \in TaskIds :
          (AcceptedSend(id) /\ last.op = "on_send_task" /\ last.invoked) =>
             StateOf(get_task(tasks, id)) \in TerminalStates
    /\ \A r \in Requests :
          streams[r].pc = "done" =>
             StateOf(get_task(tasks, streams[r].params.id)) \in TerminalStates

(***************************************************************************)
(* C31.  Tasks with different identifiers are independent: under every     *)
(* interleaving of sends and generator steps, a step taken for id A (a     *)
(* send, a status update, a failure) creates, changes or removes the store *)
(* record of no other id B and changes the events of no generator open for *)
(* another id.  A send touches at most the record of its own id and the    *)
(* generator it creates; a generator step touches at most that generator   *)
(* and the record of its id.                                               *)
(***************************************************************************)
ChangedIds == { id \in TaskIds : tasks'[id] # tasks[id] }
ChangedStreams == { r \in Requests : streams'[r] # streams[r] }

C31_TasksIndependent ==
    [][/\ Cardinality(ChangedStreams) <= 1
       /\ last'.rid # 0 =>
             /\ ChangedIds \subseteq {last'.params.id}
             /\ \A r \in ChangedStreams :
                   /\ streams[r] = NoStream
                   /\ streams'[r].params.id = last'.params.id
       /\ last'.rid = 0 =>
             /\ \A r \in ChangedStreams :
                   ChangedIds \subseteq {streams[r].params.id}
             /\ ChangedStreams = {} => ChangedIds = {}]_vars

\* Two generators are open for different ids, each has delivered events and
\* written its task, and the store holds both records.
C31_Witness ==
    \E r1, r2 \in Requests :
       /\ streams[r1].params.id # streams[r2].params.id
       /\ streams[r1].events # <<>> /\ streams[r2].events # <<>>
       /\ streams[r1].writes > 0 /\ streams[r2].writes > 0
       /\ Suspended(streams[r1]) /\ Suspended(streams[r2])
       /\ \A id \in TaskIds : get_task(tasks, id) # NoTask

(***************************************************************************)
(* C32.  get_task for an id that was never stored returns None and leaves  *)
(* the store as it is; _update_store for an id that is not in the store    *)
(* raises the not-found ValueError, creates no entry and changes no        *)
(* record.  (Nothing is ever removed from the store, so an id that is not  *)
(* in it was never stored.)                                                *)
(***************************************************************************)
C32_UnknownIdNotFound ==
    [][/\ (last'.op = "get_task"
              /\ get_task(tasks, last'.params.id) = NoTask) =>
             /\ last'.task = NoTask
             /\ tasks' = tasks
       /\ (last'.op = "_update_store"
              /\ get_task(tasks, last'.params.id) = NoTask) =>
             /\ last'.result = "ValueError"
             /\ last'.error = "Task " \o last'.params.id \o " not found"
             /\ last'.task = NoTask
             /\ tasks' = tasks]_vars

\* A status update for an id that is not stored has just failed, on a store
\* that holds the Task of the other id.
C32_Witness ==
    /\ last.op = "_update_store"
    /\ last.result = "ValueError"
    /\ get_task(tasks, last.params.id) = NoTask
    /\ \E id \in TaskIds : get_task(tasks, id).kind = "Task"

(***************************************************************************)
(* C35.  _update_store changes only the status of the addressed task and,  *)
(* when a non-empty artifact list is supplied, its artifacts: with no      *)
(* artifacts or an empty list the stored artifacts stay, and the task's    *)
(* id, session id and originating message always stay (both managers);     *)
(* the records of the other ids stay too.                                  *)
(***************************************************************************)
C35_UpdateStoreFrame ==
    [][\A task_id \in TaskIds, status \in StatusValues,
          artifacts \in ArtifactLists :
          (UpdateStore(task_id, status, artifacts)
              /\ ~update_store_fails(tasks, task_id)) =>
             LET old == get_task(tasks, task_id)
                 new == get_task(tasks', task_id)
             IN  /\ new.status = status
                 /\ new.artifacts =
                       IF artifacts # <<>> THEN artifacts ELSE old.artifacts
                 /\ new.id = old.id
                 /\ new.sessionId = old.sessionId
                 /\ new.message = old.message
                 /\ new.kind = "Task"
                 /\ \A id \in TaskIds \ {task_id} :
                       get_task(tasks', id) = get_task(tasks, id)]_vars

\* An update without artifacts has just completed a task that keeps the
\* artifact, the session id and the message it had.
C35_Witness ==
    /\ last.op = "_update_store"
    /\ last.result = "Task"
    /\ last.task.status.state = TaskState.COMPLETED
    /\ last.task.artifacts # <<>>
    /\ last.task.sessionId # None
    /\ last.task.message # NoMessage
    /\ get_task(tasks, last.params.id) = last.task

(***************************************************************************)
(* C33.  In the hiagent adapter's stream the remote steps come in the      *)
(* order submit, polls, extraction: a call submits at most once, polls     *)
(* only after its submission returned a run id and always with that run    *)
(* id, extracts only from the payload of a poll that reported success, and *)
(* for a query without a digit ends with one require_user_input            *)
(* notification having made no submission and no poll.                     *)
(***************************************************************************)
C33_SubmitThenPollsThenExtraction ==
    LET n == Len(poller.polls)
    IN  /\ agent.submits <= 1
        /\ poller.pc # "idle" =>
              /\ agent.submits = 1
              /\ agent.workflow_response.kind = "return"
              /\ agent.workflow_response.runId \in RunIds
              /\ poller.run_id = agent.workflow_response.runId
        /\ \A i \in 1..n : poller.polls[i].run_id = agent.workflow_response.runId
        /\ agent.customer_details # NoCustomer =>
              /\ n >= 1
              /\ PolledSuccess(n)
              /\ agent.process_data = poller.polls[n].out.process_data
        /\ (agent.pc # "idle" /\ customer_id_of(agent.query) = "") =>
              /\ agent.submits = 0
              /\ poller = NoPoller
              /\ Len(agent.yielded) = 1
              /\ agent.yielded[1].require_user_input
              /\ ~agent.yielded[1].is_task_complete

\* The stream has ended after one submission, a poll that reported
\* processing and one that reported success with a customer in its payload.
C33_Witness ==
    /\ agent.pc = "ended"
    /\ agent.submits = 1
    /\ Len(poller.polls) = 2
    /\ PolledProcessing(1)
    /\ PolledSuccess(2)
    /\ agent.customer_details = FullCustomer

(***************************************************************************)
(* C36.  For every structured response state of the langgraph adapters     *)
(* (status input_required, error or completed, or no structured response   *)
(* at all) get_agent_response returns a notification with exactly one of   *)
(* is_task_complete and require_user_input set; is_task_complete is set    *)
(* only for status completed, and an error the agent reports comes back as *)
(* require_user_input with the agent's message: get_agent_response raises  *)
(* nothing, whether it is called directly, by an invoke whose graph run    *)
(* returned, or for the last item of stream.                               *)
(***************************************************************************)
\* The reply is what get_agent_response returned.
FromGetAgentResponse ==
    \/ last.op = "get_agent_response"
    \/ last.op = "invoke" /\ last.error = None
    \/ last.op = "stream" /\ agent.stream.pc = "yielded_last"

C36_ExactlyOneFlag ==
    /\ last.op = "get_agent_response" => last.error = None
    /\ FromGetAgentResponse =>
       LET n  == last.result
           sr == agent.values[last.params.sessionId]
       IN  /\ last.error = None
           /\ n.kind = "item"
           /\ n.is_task_complete # n.require_user_input
           /\ n.is_task_complete <=>
                 (sr.kind = "ResponseFormat" /\ sr.status = "completed")
           /\ (sr.kind = "ResponseFormat" /\ sr.status = "error") =>
                 /\ n.require_user_input
                 /\ n.content = sr.message
           /\ sr.kind # "ResponseFormat" => n.require_user_input

\* The last item of a stream whose graph run left a structured response with
\* status error, while the other session's state holds a completed one.
C36_Witness ==
    /\ FromGetAgentResponse
    /\ last.op = "stream"
    /\ agent.values[last.params.sessionId].kind = "ResponseFormat"
    /\ agent.values[last.params.sessionId].status = "error"
    /\ last.result.require_user_input
    /\ \E sid \in ThreadIds : agent.values[sid].status = "completed"

(***************************************************************************)
(* C37.  The crewai adapter's invoke never raises: a backend failure and   *)
(* an empty backend response come back as an ordinary result with an error *)
(* or apology text, so every crewai synchronous send whose first message   *)
(* part is text ends with the task stored as completed with one artifact,  *)
(* never as error.                                                         *)
(***************************************************************************)
FirstPartIsText(params) == params.message.parts[1].type = "text"

StoredCompletedWithOneArtifact(id) ==
    /\ StateOf(get_task(tasks, id)) = TaskState.COMPLETED
    /\ Len(ArtifactsOf(get_task(tasks, id))) = 1

C37_CrewSendAlwaysCompleted ==
    (last.op = "on_send_task" /\ FirstPartIsText(last.params)) =>
       /\ last.result # "ValueError"
       /\ StoredCompletedWithOneArtifact(last.params.id)

\* C37 as amended: every crewai synchronous send that passes validation and
\* whose first message part is text returns a Task and ends with the task
\* stored as completed with one artifact, never as error; a send rejected
\* by the validation stores nothing.
C37_ValidatedCrewSendAlwaysCompleted ==
    (last.op = "on_send_task" /\ FirstPartIsText(last.params)) =>
       IF last.result = "IncompatibleTypes"
       THEN IncompatibleSend /\ ~last.invoked
       ELSE /\ last.result = "Task"
            /\ last.invoked
            /\ last.task = get_task(tasks, last.params.id)
            /\ StoredCompletedWithOneArtifact(last.params.id)

\* A send whose backend call raised has returned a completed Task with the
\* error text as its artifact.
C37_Witness ==
    /\ last.op = "on_send_task"
    /\ last.result = "Task"
    /\ last.task.status.state = TaskState.COMPLETED
    /\ last.task.artifacts =
          <<Artifact(<<TextPart("Error performing analysis: backend unreachable")>>)>>

(***************************************************************************)
(* C34.  In the hiagent manager a send that passes validation for an id    *)
(* already in the store replaces the stored record with a fresh Task in    *)
(* working state without artifacts, whatever the status stored before: a   *)
(* streaming send leaves exactly that Task, and a synchronous send leaves  *)
(* it or what its own result made of it, so get_task no longer returns the *)
(* artifacts of the earlier turn.                                          *)
(***************************************************************************)
FreshTask(params) ==
    Task(params.id, params.sessionId, TaskStatus(TaskState.WORKING, NoMessage),
         params.message, <<>>)

C34_SecondSendReplacesRecord ==
    [][\A params \in TextParams :
          LET fresh == [tasks EXCEPT ![params.id] = FreshTask(params)]
          IN  /\ (HiAgentOnSendTaskSubscribe(params) /\ last'.result = "Stream") =>
                    tasks' = fresh
              /\ \A res \in InvokeOutcomes :
                    (HiAgentOnSendTask(params, res)
                        /\ last'.result # "IncompatibleTypes") =>
                       \/ tasks' = fresh
                       \/ /\ last'.result = "Task"
                          /\ tasks' = HiAgentSendResult(fresh, params, res)]_vars

\* A second send, streaming, has just been accepted for the id whose first
\* generator has delivered the artifact of a completed turn: the store
\* holds a working Task without artifacts.
C34_Witness ==
    /\ last.op = "on_send_task_subscribe"
    /\ last.result = "Stream"
    /\ last.rid = 2
    /\ streams[1].params.id = last.params.id
    /\ \E i \in 1..Len(streams[1].events) : streams[1].events[i].kind = "artifact"
    /\ get_task(tasks, last.params.id) = FreshTask(last.params)

(***************************************************************************)
(* C38.  The session id of a request is kept for the task's whole turn:    *)
(* the Task a send returns and leaves in the store, and the Task the store *)
(* holds after the initial upsert and after every status update of a       *)
(* streaming send, carries the session id of the request.                  *)
(***************************************************************************)
C38_SessionIdKept ==
    /\ (last.op = "on_send_task" /\ last.result = "Task") =>
          /\ last.task.sessionId = last.params.sessionId
          /\ get_task(tasks, last.params.id).sessionId = last.params.sessionId
    /\ \A r \in Requests :
          streams[r].pc # "idle" =>
             get_task(tasks, streams[r].params.id).sessionId
                = streams[r].params.sessionId

====
